---------------------------- MODULE Spec2Model ----------------------------
(***************************************************************************)
(* EDLA (Elite Dangerous Log Analyzer): the log ingestion and aggregation  *)
(* engine.                                                                 *)
(*                                                                         *)
(*   Tailing Reader     src/log_monitor.py             (SpecTail)          *)
(*   Live Aggregator    src/current_session_tracker.py (SpecLive)          *)
(*   Session Store and Scan Orchestrator                                   *)
(*                      src/session_manager.py         (SpecScan)          *)
(*                                                                         *)
(* Each specification moves the variables of its own component and leaves  *)
(* the others at their initial value.                                      *)
(***************************************************************************)
EXTENDS Integers, Sequences, FiniteSets, TLC

VARIABLES
    \* ---- Tailing Reader (one journal file and the handler that tails it)
    fexists,             \* log_file.exists()
    file,                \* the bytes of the journal file on disk
    processed_positions, \* EliteDangerousLogHandler.processed_positions[file]
    delivered,           \* history: the on_event calls, in order
    npolls,              \* history: number of process_log_file calls so far
    lastPoll,            \* history: what the last process_log_file call did
    \* ---- Live Aggregator
    tracker,             \* the fields of CurrentSessionTracker
    prevTracker,         \* history: tracker before the last process_event
    lastEvent,           \* history: the event of the last process_event
    nEvents,             \* history: number of process_event calls so far
    lastCall,            \* history: the last call of another tracker method
                         \*          since the last process_event
    \* ---- Session Store and Scan Orchestrator
    disk,                \* the *.log files of log_dir: name -> file
    sessions,            \* SessionManager.sessions
    processed_files,     \* SessionManager.processed_files
    db_sessions,         \* rows of table sessions: session_id -> row
    db_processed,        \* rows of table processed_files
    lastScan,            \* history: what the last scan_all_logs call did
    lastQuery,           \* history: the last get_session_statistics call
                         \*          since the store last changed
    dirty,               \* history: log_dir changed since the last operation
    nOps,                \* history: number of store operations so far
    \* ---- the application data directory
    legacy,              \* the legacy JSON files of APP_DATA_DIR: name -> content
    lastMigration,       \* history: what the last SessionManager() call did
    \* ---- the application window and its threads
    current_commander,   \* EliteDangerousApp.current_commander
    revalidate_thread,   \* EliteDangerousApp.revalidate_thread
    threads,             \* the RevalidateLogsThread objects: id -> fields
    scans,               \* the scan_all_logs executions in flight:
                         \*   thread -> locals
    signals,             \* finished signals queued for the GUI thread
    initial_done,        \* the single-shot timer of the initial scan fired
    \* ---- the threads that watch the journal file
    pollers,             \* the process_log_file calls in progress:
                         \*   thread -> locals
    watcher,             \* the process_event call the watcher thread is in
    event_tracker        \* EventTracker.recent_events and the profiles

tailVars == <<fexists, file, processed_positions, delivered, npolls, lastPoll>>
liveVars == <<tracker, prevTracker, lastEvent, nEvents, lastCall>>
scanVars == <<disk, sessions, processed_files, db_sessions, db_processed,
              lastScan, lastQuery, dirty, nOps>>
dataVars == <<legacy, lastMigration>>
appVars == <<current_commander, revalidate_thread, threads, scans, signals,
             initial_done>>
monVars == <<pollers, watcher, event_tracker>>
vars == <<tailVars, liveVars, scanVars, dataVars, appVars, monVars>>

\* Python's None
None == "<None>"

(***************************************************************************)
(*                           TAILING READER                                *)
(***************************************************************************)

\* Bound: the journal file grows to at most MaxLen bytes.
MaxLen == 5
\* Bound: at most MaxPolls process_log_file calls are recorded.
MaxPolls == 3

\* The bytes a journal line is made of.  Over this alphabet the JSON texts
\* are "{}" (an object) and "5", "55", ... (numbers); "\n" ends a line.
NL == "\n"
Bytes == {"{", "}", "5", NL}

\* str.strip(): of the bytes above only the newline is whitespace.
RECURSIVE lstrip(_)
lstrip(s) ==
    IF s # <<>> /\ Head(s) = NL THEN lstrip(Tail(s)) ELSE s

RECURSIVE rstrip(_)
rstrip(s) ==
    IF s # <<>> /\ s[Len(s)] = NL THEN rstrip(SubSeq(s, 1, Len(s) - 1)) ELSE s

strip(s) == rstrip(lstrip(s))

\* json.loads(line): "object" for a JSON object, "number" for another JSON
\* value, "JSONDecodeError" when the text is not JSON.
json_loads(s) ==
    IF s = <<"{", "}">> THEN "object"
    ELSE IF s # <<>> /\ \A i \in 1..Len(s) : s[i] = "5" THEN "number"
    ELSE "JSONDecodeError"

\* parse_log_line(line): None for an empty or non-JSON line, an event record
\* for a JSON object; data.get on a JSON value that is no object raises
\* AttributeError, which parse_log_line does not catch.
parse_log_line(line) ==
    IF line = <<>> THEN None
    ELSE CASE json_loads(line) = "object" -> "event"
           [] json_loads(line) = "number" -> "AttributeError"
           [] OTHER -> None

\* 1-based index of the byte that ends the line starting at index i: the
\* next newline, or the last byte of the file.
RECURSIVE LineEnd(_, _)
LineEnd(content, i) ==
    IF i >= Len(content) \/ content[i] = NL THEN i ELSE LineEnd(content, i + 1)

\* f.seek(pos); f.readlines(): the lines from byte offset pos to the end of
\* the file, each as the byte range [start, end) it occupies.
RECURSIVE readlines(_, _)
readlines(content, pos) ==
    IF pos >= Len(content) THEN <<>>
    ELSE LET e == LineEnd(content, pos + 1)
         IN  <<[start |-> pos, end |-> e]>> \o readlines(content, e)

LineText(content, ln) == SubSeq(content, ln.start + 1, ln.end)

\* The loop "for line in new_lines": the on_event calls it makes.  An
\* exception raised by parse_log_line leaves the loop (the except clause of
\* process_log_file is outside it).
RECURSIVE DeliverLines(_, _, _)
DeliverLines(content, lines, k) ==
    IF lines = <<>> THEN <<>>
    ELSE LET r == parse_log_line(strip(LineText(content, Head(lines))))
         IN  IF r = "AttributeError" THEN <<>>
             ELSE (IF r = "event"
                   THEN <<[start |-> Head(lines).start,
                           end |-> Head(lines).end, poll |-> k]>>
                   ELSE <<>>)
                  \o DeliverLines(content, Tail(lines), k)

\* Whether parse_log_line raises on one of the lines.
Raises(content, lines) ==
    \E i \in 1..Len(lines) :
        parse_log_line(strip(LineText(content, lines[i]))) = "AttributeError"

\* No process_log_file call yet.
NoPoll == [from |-> 0, size |-> 0, ndelivered |-> 0, outcome |-> "none"]

\* A plausible slip: the offset read at line 39 is stored back.
NewPosition_Stale(content, current_pos) == current_pos

\* self.processed_positions[str(log_file)] = f.tell(), after readlines().
NewPosition(content, current_pos) == Len(content)

TailInit ==
    /\ fexists = FALSE
    /\ file = <<>>
    /\ processed_positions = 0
    /\ delivered = <<>>
    /\ npolls = 0
    /\ lastPoll = NoPoll

\* The game creates the journal file.
CreateFile ==
    /\ ~fexists
    /\ fexists' = TRUE
    /\ UNCHANGED <<file, processed_positions, delivered, npolls, lastPoll>>
    /\ UNCHANGED <<liveVars, scanVars, dataVars, appVars, monVars>>

\* The game appends one byte to the journal file.
AppendByte ==
    /\ fexists
    /\ Len(file) < MaxLen
    /\ \E b \in Bytes : file' = Append(file, b)
    /\ UNCHANGED <<fexists, processed_positions, delivered, npolls,
                   lastPoll>>
    /\ UNCHANGED <<liveVars, scanVars, dataVars, appVars, monVars>>

\* One call of process_log_file as a function of what it finds: exists is
\* log_file.exists(), io is where open/seek/readlines fails ("open", "read"
\* or "none"), content the bytes of the file, current_pos the stored offset,
\* k the number of the call.  The result is the offset stored afterwards, the
\* on_event calls made and how the call ended.
\* A plausible slip: the offset is stored although the read failed.
PollResult_StoresOnError(exists, io, content, current_pos, k) ==
    IF ~exists
    THEN [pos |-> current_pos, events |-> <<>>, outcome |-> "missing"]
    ELSE IF io # "none"
    THEN [pos |-> Len(content), events |-> <<>>, outcome |-> "ioerror"]
    ELSE LET new_lines == readlines(content, current_pos)
         IN  [pos |-> NewPosition(content, current_pos),
              events |-> DeliverLines(content, new_lines, k),
              outcome |-> IF Raises(content, new_lines) THEN "raised"
                          ELSE "ok"]

PollResult(exists, io, content, current_pos, k) ==
    IF ~exists
    THEN [pos |-> current_pos, events |-> <<>>, outcome |-> "missing"]
    ELSE IF io # "none"
    THEN [pos |-> current_pos, events |-> <<>>, outcome |-> "ioerror"]
    ELSE LET new_lines == readlines(content, current_pos)
         IN  [pos |-> NewPosition(content, current_pos),
              events |-> DeliverLines(content, new_lines, k),
              outcome |-> IF Raises(content, new_lines) THEN "raised"
                          ELSE "ok"]

\* EliteDangerousLogHandler.process_log_file(log_file), run to completion.
\* open() or readlines() may fail with an OSError, caught at line 51.
Poll ==
    /\ npolls < MaxPolls
    /\ npolls' = npolls + 1
    /\ \E io \in (IF fexists THEN {"none", "open", "read"} ELSE {"none"}) :
          LET r == PollResult(fexists, io, file, processed_positions, npolls')
          IN  /\ processed_positions' = r.pos
              /\ delivered' = delivered \o r.events
              /\ lastPoll' = [from |-> processed_positions,
                              size |-> Len(file),
                              ndelivered |-> Len(delivered),
                              outcome |-> r.outcome]
    /\ UNCHANGED <<fexists, file>>
    /\ UNCHANGED <<liveVars, scanVars, dataVars, appVars, monVars>>

TailNext == CreateFile \/ AppendByte \/ Poll

\* The byte ranges of the on_event calls made so far.
DeliveredRanges ==
    {[start |-> delivered[i].start, end |-> delivered[i].end] :
        i \in 1..Len(delivered)}

\* The events one full read of the file gives: the lines of the whole
\* content that decode to an event record.
FullReadRanges(content) ==
    {[start |-> ln.start, end |-> ln.end] :
        ln \in {readlines(content, 0)[i] :
                    i \in 1..Len(readlines(content, 0))} \cap
               {l \in [start : 0..Len(content), end : 0..Len(content)] :
                    l.start < l.end
                    /\ parse_log_line(strip(LineText(content, l))) = "event"}}

(* C1: over any sequence of process_log_file calls on a file that only
   grows by appends, no line is delivered to on_event twice: the byte ranges
   of any two deliveries are disjoint, the later delivery lying after the
   earlier one in the file. *)
C1_NoRedelivery ==
    \A i, j \in 1..Len(delivered) :
        i < j => delivered[i].end <= delivered[j].start

\* Two different polls have each delivered a line.
C1_Witness ==
    \E i, j \in 1..Len(delivered) : delivered[i].poll < delivered[j].poll

(* C2: once a poll has read the file to its end, the events delivered over
   all polls are exactly the events of one full read of the file content,
   also when an append ended in the middle of a line and a poll ran between
   the two halves. *)
C2_UnionEqualsFullRead ==
    (npolls > 0 /\ processed_positions = Len(file)) =>
        DeliveredRanges = FullReadRanges(file)

\* The file as the last process_log_file call found it (the file only grows)
\* and the lines that call read.
PolledContent == SubSeq(file, 1, lastPoll.size)
PolledLines == readlines(PolledContent, lastPoll.from)

(* C11: in the tailing path a record that raises while being decoded does
   not lose the other records of the same poll: every line read by the last
   process_log_file call that decodes to an event record was delivered to
   on_event by that call. *)
C11_OneBadRecordKeepsTheRest ==
    lastPoll.outcome \in {"ok", "raised"} =>
        \A i \in 1..Len(PolledLines) :
            parse_log_line(strip(LineText(PolledContent, PolledLines[i])))
                = "event"
            => \E j \in 1..Len(delivered) :
                  /\ delivered[j].start = PolledLines[i].start
                  /\ delivered[j].end = PolledLines[i].end
                  /\ delivered[j].poll = npolls

(* C12: parse_log_line never raises and gives None or an event record for
   every line a poll reads: a record exactly for the lines that are a JSON
   object, None for blank lines, partial lines, non-JSON text and JSON
   values that are no object. *)
C12_ParseNeverRaises ==
    lastPoll.outcome \in {"ok", "raised"} =>
        /\ lastPoll.outcome # "raised"
        /\ \A i \in 1..Len(PolledLines) :
              LET line == strip(LineText(PolledContent, PolledLines[i]))
                  r == parse_log_line(line)
              IN  /\ r \in {None, "event"}
                  /\ (r = "event") = (json_loads(line) = "object")

(* C13: when the last process_log_file call found no file or failed with an
   I/O error while opening or reading, it delivered no event and left the
   stored offset as it was, so the next call reads the same bytes and
   delivers what the failed call would have delivered. *)
C13_FailedPollKeepsOffset ==
    lastPoll.outcome \in {"missing", "ioerror"} =>
        /\ processed_positions = lastPoll.from
        /\ Len(delivered) = lastPoll.ndelivered
        /\ PollResult(TRUE, "none", PolledContent, processed_positions,
                      npolls + 1).events
           = PollResult(TRUE, "none", PolledContent, lastPoll.from,
                        npolls + 1).events

\* A poll failed with an I/O error after an earlier poll had stored an
\* offset, with a decodable line waiting to be read.
C13_Witness ==
    /\ lastPoll.outcome = "ioerror"
    /\ lastPoll.from > 0
    /\ \E i \in 1..Len(PolledLines) :
          parse_log_line(strip(LineText(PolledContent, PolledLines[i])))
              = "event"


(***************************************************************************)
(*                           LIVE AGGREGATOR                               *)
(***************************************************************************)

\* Bound: at most MaxEvents process_event calls.
MaxEvents == 4

\* Optional[int]: <<>> is None, <<v>> is the integer v.
NoInt == <<>>
Some(v) == <<v>>

\* dict.get(key, default)
Get(d, k, default) == IF k \in DOMAIN d THEN d[k] ELSE default

\* d[k] = v on a dict
DictSet(d, k, v) == [x \in (DOMAIN d) \cup {k} |-> IF x = k THEN v ELSE d[x]]

\* Truth value of an Optional[str]: None and "" are false.
Truthy(s) == s # None /\ s # ""

\* A plausible slip: the list is cut at the first entry with the id.
RECURSIVE WithoutMission_CutsAtMatch(_, _)
WithoutMission_CutsAtMatch(lst, mission_id) ==
    IF lst = <<>> THEN <<>>
    ELSE IF Head(lst).MissionID = mission_id THEN <<>>
    ELSE <<Head(lst)>> \o WithoutMission_CutsAtMatch(Tail(lst), mission_id)

\* [x for x in lst if x.get("MissionID") != mission_id]
RECURSIVE WithoutMission(_, _)
WithoutMission(lst, mission_id) ==
    IF lst = <<>> THEN <<>>
    ELSE (IF Head(lst).MissionID # mission_id THEN <<Head(lst)>> ELSE <<>>)
         \o WithoutMission(Tail(lst), mission_id)

_empty_startup_snapshot ==
    [load_game |-> <<>>, ranks |-> <<>>, progress |-> <<>>,
     powerplay |-> <<>>, reputation |-> <<>>]

\* A plausible slip: reset() forgets the travel counters and sets.
reset_KeepsTravel(t) ==
    [start_time |-> None, commander |-> None, current_log_file |-> None,
     start_credits |-> NoInt, current_credits |-> NoInt,
     money_earned |-> 0, money_spent |-> 0,
     light_years_traveled |-> t.light_years_traveled, jumps |-> t.jumps,
     systems_visited |-> t.systems_visited,
     stations_visited |-> t.stations_visited,
     planets_landed |-> 0,
     kills |-> 0, deaths |-> 0, bounties_earned |-> 0, combat_bonds |-> 0,
     scans |-> 0, fss_scans |-> 0, dss_scans |-> 0, exploration_value |-> 0,
     trade_profit |-> 0,
     missions_completed |-> 0, mission_rewards |-> 0,
     active_missions |-> <<>>, completed_missions |-> <<>>,
     failed_missions |-> <<>>,
     reputation |-> <<>>, startup_snapshot |-> _empty_startup_snapshot,
     first_ship |-> None, current_ship |-> None,
     first_system |-> None, current_system |-> None]

\* CurrentSessionTracker.reset(): the state it leaves, whatever t was.
reset(t) ==
    [start_time |-> None, commander |-> None, current_log_file |-> None,
     start_credits |-> NoInt, current_credits |-> NoInt,
     money_earned |-> 0, money_spent |-> 0,
     light_years_traveled |-> 0, jumps |-> 0,
     systems_visited |-> {}, stations_visited |-> {}, planets_landed |-> 0,
     kills |-> 0, deaths |-> 0, bounties_earned |-> 0, combat_bonds |-> 0,
     scans |-> 0, fss_scans |-> 0, dss_scans |-> 0, exploration_value |-> 0,
     trade_profit |-> 0,
     missions_completed |-> 0, mission_rewards |-> 0,
     active_missions |-> <<>>, completed_missions |-> <<>>,
     failed_missions |-> <<>>,
     reputation |-> <<>>, startup_snapshot |-> _empty_startup_snapshot,
     first_ship |-> None, current_ship |-> None,
     first_system |-> None, current_system |-> None]

\* The state after CurrentSessionTracker.__init__()
NewTracker == reset([light_years_traveled |-> 0, jumps |-> 0,
                     systems_visited |-> {}, stations_visited |-> {}])

\* A plausible slip: the test on the log file is lost, so every LoadGame
\* that carries a commander starts a new session.
LoadGameStep_AlwaysNewSession(t, ev) ==
    IF ev.event # "LoadGame" THEN t
    ELSE LET raw == ev.raw
             commander == Get(raw, "Commander", None)
         IN  IF Truthy(commander)
             THEN [reset(t) EXCEPT
                     !.commander = commander,
                     !.current_log_file = ev.log_file,
                     !.start_time = ev.timestamp,
                     !.start_credits = Some(Get(raw, "Credits", 0)),
                     !.current_credits = Some(Get(raw, "Credits", 0)),
                     !.first_ship = Get(raw, "Ship", None),
                     !.current_ship = Get(raw, "Ship", None),
                     !.first_system = Get(raw, "StarSystem", None),
                     !.current_system = Get(raw, "StarSystem", None)]
             ELSE IF commander = t.commander
             THEN [t EXCEPT
                     !.current_credits =
                         IF "Credits" \in DOMAIN raw
                         THEN Some(raw["Credits"]) ELSE @,
                     !.current_ship = Get(raw, "Ship", @),
                     !.current_system = Get(raw, "StarSystem", @)]
             ELSE t

\* process_event, lines 99-117: new-session detection and the update pulse.
\* An event is [event, timestamp, log_file, raw]; raw holds the fields of
\* the journal line other than event and timestamp.
LoadGameStep(t, ev) ==
    IF ev.event # "LoadGame" THEN t
    ELSE LET raw == ev.raw
             commander == Get(raw, "Commander", None)
         IN  IF Truthy(commander)
                /\ (~Truthy(t.commander) \/ ev.log_file # t.current_log_file)
             THEN [reset(t) EXCEPT
                     !.commander = commander,
                     !.current_log_file = ev.log_file,
                     !.start_time = ev.timestamp,
                     !.start_credits = Some(Get(raw, "Credits", 0)),
                     !.current_credits = Some(Get(raw, "Credits", 0)),
                     !.first_ship = Get(raw, "Ship", None),
                     !.current_ship = Get(raw, "Ship", None),
                     !.first_system = Get(raw, "StarSystem", None),
                     !.current_system = Get(raw, "StarSystem", None)]
             ELSE IF commander = t.commander
             THEN [t EXCEPT
                     !.current_credits =
                         IF "Credits" \in DOMAIN raw
                         THEN Some(raw["Credits"]) ELSE @,
                     !.current_ship = Get(raw, "Ship", @),
                     !.current_system = Get(raw, "StarSystem", @)]
             ELSE t

\* process_event, lines 123-132: the credits delta.
CreditsStep(t, ev) ==
    IF "Credits" \notin DOMAIN ev.raw THEN t
    ELSE LET new_credits == ev.raw["Credits"]
             change == IF t.current_credits # NoInt
                       THEN new_credits - t.current_credits[1] ELSE 0
         IN  [t EXCEPT
                !.money_earned =
                    IF t.current_credits # NoInt /\ change > 0
                    THEN @ + change ELSE @,
                !.money_spent =
                    IF t.current_credits # NoInt /\ ~(change > 0)
                    THEN @ + (IF change < 0 THEN -change ELSE change) ELSE @,
                !.current_credits = Some(new_credits)]

\* _reputation_text_to_value(text): text.strip().lower() looked up in the
\* table of lines 15-18; <<>> stands for None.  lower_stripped gives
\* strip().lower() on the rating texts of the model.
lower_stripped(text) ==
    CASE text = "Hostile" -> "hostile"
      [] text = "Unfriendly" -> "unfriendly"
      [] text = "Neutral" -> "neutral"
      [] text = "Cordial" -> "cordial"
      [] text = "Friendly" -> "friendly"
      [] text = " ALLIED " -> "allied"
      [] OTHER -> text

\* A plausible slip: a text that is not in the table counts as neutral.
_reputation_text_to_value_DefaultsNeutral(text) ==
    IF text = "" THEN NoInt
    ELSE LET t == lower_stripped(text)
         IN  CASE t = "hostile" -> Some(0)
               [] t = "unfriendly" -> Some(25)
               [] t = "neutral" -> Some(50)
               [] t = "cordial" -> Some(60)
               [] t = "friendly" -> Some(75)
               [] t = "allied" -> Some(100)
               [] OTHER -> Some(50)

_reputation_text_to_value(text) ==
    IF text = "" THEN NoInt
    ELSE LET t == lower_stripped(text)
         IN  CASE t = "hostile" -> Some(0)
               [] t = "unfriendly" -> Some(25)
               [] t = "neutral" -> Some(50)
               [] t = "cordial" -> Some(60)
               [] t = "friendly" -> Some(75)
               [] t = "allied" -> Some(100)
               [] OTHER -> NoInt

\* One rating of a Reputation event, [num |-> n] or [str |-> s], stored
\* under name: lines 310-315 and 321-326.
SetReputation(rep, name, rating) ==
    IF "num" \in DOMAIN rating THEN DictSet(rep, name, rating.num)
    ELSE IF "str" \in DOMAIN rating
              /\ _reputation_text_to_value(rating.str) # NoInt
    THEN DictSet(rep, name, _reputation_text_to_value(rating.str)[1])
    ELSE rep

\* for entry in factions (lines 303-315); an entry is [Name, Reputation].
RECURSIVE FoldFactions(_, _)
FoldFactions(rep, factions) ==
    IF factions = <<>> THEN rep
    ELSE FoldFactions(
             IF Head(factions).Name = None THEN rep
             ELSE SetReputation(rep, Head(factions).Name,
                                Head(factions).Reputation),
             Tail(factions))

\* for key, value in raw_data.items() (lines 317-328); the keys are distinct,
\* so the order of the loop does not matter.
RECURSIVE FoldFlat(_, _, _)
FoldFlat(rep, raw, keys) ==
    IF keys = {} THEN rep
    ELSE LET k == CHOOSE x \in keys : TRUE
         IN  FoldFlat(SetReputation(rep, k, raw[k]), raw, keys \ {k})

RankKeys == {"Combat", "Trade", "Explore", "Empire", "Federation", "CQC",
             "Mercenary", "Exobiologist"}

\* Lines 279-282 and 284-287: the known category fields present in the
\* event overwrite the sub-map's entries.
MergeRanks(old, raw) ==
    [k \in (DOMAIN old) \cup (RankKeys \cap DOMAIN raw) |->
        IF k \in RankKeys \cap DOMAIN raw THEN raw[k] ELSE old[k]]

\* Lines 227-247 and 250-257 of MissionCompleted: the lists of the record,
\* entry by entry (every entry of the model is a dict).
ParseFactionEffects(raw) == Get(raw, "FactionEffects", <<>>)
ParseMaterialsReward(raw) == Get(raw, "MaterialsReward", <<>>)

\* A plausible slip: MissionAccepted appends without removing the old entry.
MissionAccepted_NoUpsert(t, raw) ==
    [t EXCEPT !.active_missions =
        Append(@, [MissionID |-> Get(raw, "MissionID", NoInt),
                   Name |-> Get(raw, "Name", ""),
                   Faction |-> Get(raw, "Faction", "")])]

\* Lines 197-214.  Expiry and the destination fields are carried like Name.
MissionAccepted(t, raw) ==
    LET mission_id == Get(raw, "MissionID", NoInt)
        m == [MissionID |-> mission_id,
              Name |-> Get(raw, "Name", ""),
              Faction |-> Get(raw, "Faction", "")]
    IN  [t EXCEPT !.active_missions =
            Append(IF mission_id # NoInt
                   THEN WithoutMission(@, mission_id) ELSE @, m)]

\* Line 228, "for fe in raw_data.get('FactionEffects') or []", raises
\* TypeError when the field holds a JSON number other than 0, written
\* [num |-> n] here; a list is a sequence.
FactionEffectsRaises(raw) ==
    /\ "FactionEffects" \in DOMAIN raw
    /\ "num" \in DOMAIN raw["FactionEffects"]

\* Lines 216-265.  When line 228 raises, lines 217-224 have run and the
\* exception leaves process_event.
MissionCompleted(t, raw) ==
    LET reward == Get(raw, "Reward", 0)
    IN  IF FactionEffectsRaises(raw)
        THEN [t EXCEPT
                !.missions_completed = @ + 1,
                !.mission_rewards = @ + reward,
                !.active_missions =
                    WithoutMission(@, Get(raw, "MissionID", NoInt))]
        ELSE
        [t EXCEPT
           !.missions_completed = @ + 1,
           !.mission_rewards = @ + reward,
           !.active_missions =
               WithoutMission(@, Get(raw, "MissionID", NoInt)),
           !.completed_missions =
               Append(@, [Name |-> Get(raw, "Name", ""),
                          Faction |-> Get(raw, "Faction", ""),
                          Reward |-> reward,
                          FactionEffects |-> ParseFactionEffects(raw),
                          MaterialsReward |-> ParseMaterialsReward(raw)])]

\* Lines 267-272.
MissionFailed(t, raw) ==
    [t EXCEPT
       !.active_missions = WithoutMission(@, Get(raw, "MissionID", NoInt)),
       !.failed_missions = Append(@, [Name |-> Get(raw, "Name", ""),
                                      Faction |-> Get(raw, "Faction", "")])]

\* Lines 274-276.
MissionAbandoned(t, raw) ==
    [t EXCEPT
       !.active_missions = WithoutMission(@, Get(raw, "MissionID", NoInt))]

\* process_event, lines 134-328: the if/elif chain on the event type.
EventStep(t, ev) ==
    LET raw == ev.raw
        e == ev.event
    IN  CASE e = "FSDJump" ->
               LET system == Get(raw, "StarSystem", None)
               IN  [t EXCEPT
                      !.jumps = @ + 1,
                      !.light_years_traveled = @ + Get(raw, "JumpDist", 0),
                      !.current_system = IF Truthy(system) THEN system ELSE @,
                      !.systems_visited =
                          IF Truthy(system) THEN @ \cup {system} ELSE @]
          [] e = "Location" ->
               LET system == Get(raw, "StarSystem", None)
               IN  [t EXCEPT
                      !.current_system = IF Truthy(system) THEN system ELSE @,
                      !.systems_visited =
                          IF Truthy(system) THEN @ \cup {system} ELSE @]
          [] e = "Docked" ->
               LET station == Get(raw, "StationName", None)
               IN  [t EXCEPT !.stations_visited =
                          IF Truthy(station) THEN @ \cup {station} ELSE @]
          [] e = "Touchdown" -> [t EXCEPT !.planets_landed = @ + 1]
          [] e = "Bounty" ->
               LET reward == Get(raw, "TotalReward", 0)
               IN  [t EXCEPT
                      !.bounties_earned = @ + reward,
                      !.kills = IF reward # 0 THEN @ + 1 ELSE @]
          [] e = "FactionKillBond" ->
               LET reward == Get(raw, "Reward", 0)
               IN  [t EXCEPT
                      !.combat_bonds = @ + reward,
                      !.kills = IF reward # 0 THEN @ + 1 ELSE @]
          [] e = "Died" -> [t EXCEPT !.deaths = @ + 1]
          [] e = "Scan" -> [t EXCEPT !.scans = @ + 1]
          [] e = "FSSBodySignals" -> [t EXCEPT !.fss_scans = @ + 1]
          [] e = "SAAScanComplete" -> [t EXCEPT !.dss_scans = @ + 1]
          [] e = "SellExplorationData" ->
               [t EXCEPT !.exploration_value =
                             @ + Get(raw, "TotalEarnings", 0)]
          [] e = "MarketSell" ->
               LET profit == Get(raw, "TotalSale", 0)
                             - Get(raw, "AvgPricePaid", 0) * Get(raw, "Count", 0)
               IN  [t EXCEPT !.trade_profit =
                             IF profit > 0 THEN @ + profit ELSE @]
          [] e = "MissionAccepted" -> MissionAccepted(t, raw)
          [] e = "MissionCompleted" -> MissionCompleted(t, raw)
          [] e = "MissionFailed" -> MissionFailed(t, raw)
          [] e = "MissionAbandoned" -> MissionAbandoned(t, raw)
          [] e = "Rank" ->
               [t EXCEPT !.startup_snapshot.ranks = MergeRanks(@, raw)]
          [] e = "Progress" ->
               [t EXCEPT !.startup_snapshot.progress = MergeRanks(@, raw)]
          [] e = "Powerplay" ->
               [t EXCEPT !.startup_snapshot.powerplay =
                   [Power |-> Get(raw, "Power", None),
                    Rank |-> Get(raw, "Rank", None),
                    Merits |-> Get(raw, "Merits", None),
                    Votes |-> Get(raw, "Votes", None),
                    TimePledged |-> Get(raw, "TimePledged", None)]]
          [] e = "Reputation" ->
               [t EXCEPT !.reputation =
                   IF "Factions" \in DOMAIN raw
                   THEN FoldFactions(@, raw["Factions"])
                   ELSE FoldFlat(@, raw, DOMAIN raw)]
          [] OTHER -> t

\* process_event, lines 330-332.
ShipStep(t, ev) ==
    IF "Ship" \in DOMAIN ev.raw
    THEN [t EXCEPT !.current_ship = ev.raw["Ship"]] ELSE t

\* CurrentSessionTracker.process_event(event_data): the tracker it leaves.
process_event(t, ev) ==
    LET t1 == LoadGameStep(t, ev)
    IN  IF ~Truthy(t1.commander) THEN t1
        ELSE ShipStep(EventStep(CreditsStep(t1, ev), ev), ev)

\* ---- the events fed to the Live Aggregator

LogFiles == {"Journal.1.log", "Journal.2.log"}

\* The fields of the journal lines of the model, by event type.
LoadGameRaws ==
    {[Commander |-> "A", Credits |-> 1000, Ship |-> "sidewinder",
      StarSystem |-> "Sol"],
     [Commander |-> "B", Credits |-> 700, Ship |-> "anaconda",
      StarSystem |-> "Lave"],
     [Commander |-> "A", Credits |-> 1500],
     [Credits |-> 500, Ship |-> "python"]}

SessionEvents ==
    {[event |-> "FSDJump", raw |-> [StarSystem |-> "Lave", JumpDist |-> 5]],
     [event |-> "Docked", raw |-> [StationName |-> "Hub"]],
     [event |-> "Touchdown", raw |-> <<>>],
     [event |-> "Bounty", raw |-> [TotalReward |-> 100]],
     [event |-> "Died", raw |-> <<>>],
     [event |-> "Scan", raw |-> <<>>],
     [event |-> "MarketSell",
      raw |-> [TotalSale |-> 300, AvgPricePaid |-> 10, Count |-> 20]],
     [event |-> "MissionAccepted",
      raw |-> [MissionID |-> Some(7), Name |-> "Courier", Faction |-> "X"]],
     [event |-> "MissionCompleted",
      raw |-> [MissionID |-> Some(7), Name |-> "Courier", Faction |-> "X",
               Reward |-> 50]],
     [event |-> "MissionFailed",
      raw |-> [MissionID |-> Some(7), Name |-> "Courier", Faction |-> "X"]],
     [event |-> "Reputation",
      raw |-> [Factions |-> <<[Name |-> "X",
                               Reputation |-> [str |-> "Friendly"]]>>]],
     [event |-> "Rank", raw |-> [Combat |-> 3, Trade |-> 2]],
     [event |-> "Statistics", raw |-> [Credits |-> 1200]]}

\* The timestamp of the n-th journal line of the run, as text.
Timestamp(n) == ToString(n)

\* The event records on_event can receive as the n-th event.
LiveEvents(n) ==
    {[event |-> "LoadGame", timestamp |-> Timestamp(n), log_file |-> f,
      raw |-> r] : f \in LogFiles, r \in LoadGameRaws}
    \cup
    {[event |-> e.event, timestamp |-> Timestamp(n), log_file |-> f,
      raw |-> e.raw] : f \in LogFiles, e \in SessionEvents}

NoEvent == [event |-> "", timestamp |-> "", log_file |-> "", raw |-> <<>>]

NoCall == [op |-> "none"]

LiveInit ==
    /\ tracker = NewTracker
    /\ prevTracker = NewTracker
    /\ lastEvent = NoEvent
    /\ lastCall = NoCall
    /\ nEvents = 0

\* on_event delivers one event record to CurrentSessionTracker.process_event.
Feed ==
    /\ nEvents < MaxEvents
    /\ \E ev \in LiveEvents(nEvents + 1) :
          /\ tracker' = process_event(tracker, ev)
          /\ lastEvent' = ev
    /\ prevTracker' = tracker
    /\ nEvents' = nEvents + 1
    /\ lastCall' = NoCall
    /\ UNCHANGED <<tailVars, scanVars, dataVars, appVars, monVars>>

LiveNext == Feed

\* ---- new-session detection, read off the history variables

\* The last event was a LoadGame that carries a commander and arrived when
\* no session was active or from another file than the tracked one.
NewSessionTrigger ==
    /\ lastEvent.event = "LoadGame"
    /\ Truthy(Get(lastEvent.raw, "Commander", None))
    /\ \/ ~Truthy(prevTracker.commander)
       \/ lastEvent.log_file # prevTracker.current_log_file

\* Every counter is zero and every collection is empty.
CountersAndCollectionsEmpty(t) ==
    /\ t.money_earned = 0 /\ t.money_spent = 0
    /\ t.light_years_traveled = 0 /\ t.jumps = 0 /\ t.planets_landed = 0
    /\ t.kills = 0 /\ t.deaths = 0
    /\ t.bounties_earned = 0 /\ t.combat_bonds = 0
    /\ t.scans = 0 /\ t.fss_scans = 0 /\ t.dss_scans = 0
    /\ t.exploration_value = 0 /\ t.trade_profit = 0
    /\ t.missions_completed = 0 /\ t.mission_rewards = 0
    /\ t.systems_visited = {} /\ t.stations_visited = {}
    /\ t.active_missions = <<>> /\ t.completed_missions = <<>>
    /\ t.failed_missions = <<>>
    /\ t.reputation = <<>>
    /\ t.startup_snapshot = _empty_startup_snapshot

\* The previous session had left something behind in every group of fields.
PrevSessionBusy ==
    /\ Truthy(prevTracker.commander)
    /\ prevTracker.jumps > 0
    /\ prevTracker.systems_visited # {}
    /\ prevTracker.active_missions # <<>>

(* C3: after a LoadGame that carries a commander and arrives when no session
   is active or from a log file other than the tracked one, every counter of
   the Live Aggregator is zero, every collection is empty, and commander,
   source file, start time, start and current credits, ship and system are
   those of that LoadGame. *)
C3_ResetOnNewSession ==
    NewSessionTrigger =>
        /\ CountersAndCollectionsEmpty(tracker)
        /\ tracker.commander = lastEvent.raw["Commander"]
        /\ tracker.current_log_file = lastEvent.log_file
        /\ tracker.start_time = lastEvent.timestamp
        /\ tracker.start_credits = Some(Get(lastEvent.raw, "Credits", 0))
        /\ tracker.current_credits = tracker.start_credits
        /\ tracker.first_ship = Get(lastEvent.raw, "Ship", None)
        /\ tracker.current_ship = tracker.first_ship
        /\ tracker.first_system = Get(lastEvent.raw, "StarSystem", None)
        /\ tracker.current_system = tracker.first_system

\* A session of commander A with a jump, a visited system and an active
\* mission is replaced by a session of commander B from another file.
C3_Witness ==
    /\ NewSessionTrigger
    /\ PrevSessionBusy
    /\ prevTracker.commander = "A"
    /\ tracker.commander = "B"
    /\ tracker.jumps = 0

\* A session was active before the last event.
SessionWasActive == nEvents > 0 /\ Truthy(prevTracker.commander)

\* The last event was a LoadGame for the commander and the log file of the
\* session that was active: an update pulse.
UpdatePulse ==
    /\ SessionWasActive
    /\ lastEvent.event = "LoadGame"
    /\ Get(lastEvent.raw, "Commander", None) = prevTracker.commander
    /\ lastEvent.log_file = prevTracker.current_log_file

(* C14: for every event with a Credits field folded while a session is
   active (update pulses included, the LoadGame that starts a session
   excluded), with delta = Credits - current_credits before the event:
   money_earned grows by delta and money_spent is unchanged when delta > 0,
   otherwise money_spent grows by |delta| and money_earned is unchanged;
   afterwards current_credits is the event's Credits. *)
C14_CreditsDelta ==
    (SessionWasActive /\ ~NewSessionTrigger
     /\ "Credits" \in DOMAIN lastEvent.raw
     /\ prevTracker.current_credits # NoInt) =>
        LET delta == lastEvent.raw["Credits"] - prevTracker.current_credits[1]
        IN  /\ tracker.current_credits = Some(lastEvent.raw["Credits"])
            /\ IF delta > 0
               THEN /\ tracker.money_earned = prevTracker.money_earned + delta
                    /\ tracker.money_spent = prevTracker.money_spent
               ELSE /\ tracker.money_spent = prevTracker.money_spent - delta
                    /\ tracker.money_earned = prevTracker.money_earned

(* C15: a LoadGame for the commander and the log file of the active session
   changes only current_credits, current_ship and current_system, each to
   the event's value when the event carries one; every counter, every
   collection, the start values and the session identity stay as they
   were. *)
C15_UpdatePulseFrame ==
    UpdatePulse =>
        tracker =
            [prevTracker EXCEPT
               !.current_credits =
                   IF "Credits" \in DOMAIN lastEvent.raw
                   THEN Some(lastEvent.raw["Credits"]) ELSE @,
               !.current_ship =
                   IF "Ship" \in DOMAIN lastEvent.raw
                   THEN lastEvent.raw["Ship"] ELSE @,
               !.current_system =
                   IF "StarSystem" \in DOMAIN lastEvent.raw
                   THEN lastEvent.raw["StarSystem"] ELSE @]

\* An update pulse with other credits reached a session that had a jump and
\* an active mission.
C15_Witness ==
    /\ UpdatePulse
    /\ prevTracker.jumps > 0
    /\ prevTracker.active_missions # <<>>
    /\ tracker.current_credits # prevTracker.current_credits

(* C16: while no session is active, an event that does not start one (any
   event that is no LoadGame, and a LoadGame without a commander name)
   leaves every field of the Live Aggregator as it was. *)
C16_DroppedWithoutSession ==
    (nEvents > 0 /\ ~Truthy(prevTracker.commander) /\ ~NewSessionTrigger) =>
        tracker = prevTracker

\* ---- the mission life cycle: one session fed with mission events

\* Bound: at most MaxMissionEvents process_event calls.
MaxMissionEvents == 6

\* MissionID values of the journal lines of the model.
MissionIds == {7, 8, 9}

\* The fields of a mission event with MissionID id (<<>>: no MissionID).
MissionRaw(id) ==
    IF id = NoInt THEN [Name |-> "Courier", Faction |-> "X"]
    ELSE [MissionID |-> id, Name |-> "Courier", Faction |-> "X"]

\* The event records of the mission runs: the LoadGame that starts the
\* session, MissionAccepted with each id and without one, and the events
\* that end a mission.
MissionEvents(n) ==
    {[event |-> "LoadGame", timestamp |-> Timestamp(n),
      log_file |-> "Journal.1.log",
      raw |-> [Commander |-> "A", Credits |-> 1000]]}
    \cup
    {[event |-> "MissionAccepted", timestamp |-> Timestamp(n),
      log_file |-> "Journal.1.log", raw |-> MissionRaw(id)] :
        id \in {Some(i) : i \in MissionIds} \cup {NoInt}}
    \cup
    {[event |-> e, timestamp |-> Timestamp(n),
      log_file |-> "Journal.1.log", raw |-> MissionRaw(id)] :
        e \in {"MissionCompleted", "MissionFailed", "MissionAbandoned"},
        id \in {Some(i) : i \in MissionIds} \cup {NoInt}}

\* on_event delivers one mission event to process_event.
FeedMission ==
    /\ nEvents < MaxMissionEvents
    /\ \E ev \in MissionEvents(nEvents + 1) :
          /\ tracker' = process_event(tracker, ev)
          /\ lastEvent' = ev
    /\ prevTracker' = tracker
    /\ nEvents' = nEvents + 1
    /\ lastCall' = NoCall
    /\ UNCHANGED <<tailVars, scanVars, dataVars, appVars, monVars>>

MissionNext == FeedMission

\* The MissionID values of a mission list, in order.
IdsOf(lst) == [i \in 1..Len(lst) |-> lst[i].MissionID]

(* C17: in every reachable state of the Live Aggregator no two entries of
   active_missions have the same MissionID, entries of MissionAccepted
   events without a MissionID (id None) included. *)
C17_UniqueMissionIds ==
    \A i, j \in 1..Len(tracker.active_missions) :
        i # j => tracker.active_missions[i].MissionID
                 # tracker.active_missions[j].MissionID

\* The last event ended a mission while a session was active.
MissionEnded ==
    /\ SessionWasActive
    /\ lastEvent.event \in {"MissionCompleted", "MissionFailed",
                            "MissionAbandoned"}

(* C18: after MissionCompleted, MissionFailed or MissionAbandoned with id m,
   active_missions is the list before the event without the entries whose
   MissionID is m, the others in their order; MissionCompleted adds one
   record at the end of completed_missions and 1 to missions_completed,
   MissionFailed adds one record at the end of failed_missions, and
   MissionAbandoned changes neither list; nothing else is added. *)
C18_MissionEnd ==
    MissionEnded =>
        LET m == Get(lastEvent.raw, "MissionID", NoInt)
            Other(x) == x.MissionID # m
            e == lastEvent.event
            done == tracker.completed_missions
            failed == tracker.failed_missions
        IN  /\ tracker.active_missions
                   = SelectSeq(prevTracker.active_missions, Other)
            /\ \A i \in 1..Len(tracker.active_missions) :
                  tracker.active_missions[i].MissionID # m
            /\ IF e = "MissionCompleted"
               THEN /\ Len(done) = Len(prevTracker.completed_missions) + 1
                    /\ SubSeq(done, 1, Len(done) - 1)
                          = prevTracker.completed_missions
                    /\ done[Len(done)].Name = lastEvent.raw["Name"]
                    /\ tracker.missions_completed
                          = prevTracker.missions_completed + 1
               ELSE /\ done = prevTracker.completed_missions
                    /\ tracker.missions_completed
                          = prevTracker.missions_completed
            /\ IF e = "MissionFailed"
               THEN /\ Len(failed) = Len(prevTracker.failed_missions) + 1
                    /\ SubSeq(failed, 1, Len(failed) - 1)
                          = prevTracker.failed_missions
                    /\ failed[Len(failed)].Name = lastEvent.raw["Name"]
               ELSE failed = prevTracker.failed_missions

\* Mission 8 ended while missions 7, 8 and 9 were active, in that order.
C18_Witness ==
    /\ MissionEnded
    /\ Get(lastEvent.raw, "MissionID", NoInt) = Some(8)
    /\ IdsOf(prevTracker.active_missions) = <<Some(7), Some(8), Some(9)>>
    /\ IdsOf(tracker.active_missions) = <<Some(7), Some(9)>>


(***************************************************************************)
(*                 SESSION STORE AND SCAN ORCHESTRATOR                     *)
(***************************************************************************)

\* ---- the journal files of log_dir

\* The *.log names of the model, in the order sorted() gives them.
SortedNames == <<"Journal.20240101000000.01.log",
                 "Journal.20240102000000.01.log">>
FileNames == {SortedNames[i] : i \in 1..Len(SortedNames)}

\* str(log_file) for the file of that name in log_dir.
Path(name) == "log_dir/" \o name

\* parse_timestamp_from_filename(name).isoformat(), None when the name does
\* not carry a 14-digit timestamp that is a date.
StartTimeOf(name) ==
    CASE name = "Journal.20240101000000.01.log" -> "2024-01-01T00:00:00"
      [] name = "Journal.20240102000000.01.log" -> "2024-01-02T00:00:00"
      [] OTHER -> None

\* A Python int used as the value of "event": {"event": 5}.
PyInt5 == "<int 5>"

\* A journal line as json.loads sees it: a JSON object with its event,
\* timestamp and other fields (raw); a JSON value that is no object; or
\* text that is not JSON (blank, partial or damaged line).
ObjectLine(e, ts, raw) ==
    [json |-> "object", event |-> e, timestamp |-> ts, raw |-> raw]
NumberLine == [json |-> "number"]
InvalidLine == [json |-> "invalid"]

\* ---- Archival Aggregator: SessionManager.process_log_file

\* Lines 233-283: session_data before the first line is read.
NewSessionData(name) ==
    [session_id |-> name, log_file |-> Path(name),
     start_time |-> StartTimeOf(name), end_time |-> None,
     commander |-> None, events |-> <<>>, event_counts |-> <<>>,
     first_ship |-> None, last_ship |-> None,
     first_system |-> None, last_system |-> None,
     first_credits |-> NoInt, last_credits |-> NoInt, credits_change |-> 0,
     jumps |-> 0, light_years_traveled |-> 0,
     docked_count |-> 0, undocked_count |-> 0, planets_landed |-> 0,
     total_events |-> 0,
     bounties_earned |-> 0, bounty_count |-> 0, combat_bonds |-> 0,
     died |-> FALSE, kills |-> 0, deaths |-> 0,
     scans |-> 0, fss_scans |-> 0, dss_scans |-> 0, codex_entries |-> 0,
     exploration_value |-> 0,
     market_buys |-> 0, market_sells |-> 0, trade_profit |-> 0,
     missions_accepted |-> 0, missions_completed |-> 0,
     missions_failed |-> 0, mission_rewards |-> 0,
     systems_visited |-> {}, stations_visited |-> {}, unique_ships |-> {},
     start_ranks |-> <<>>, end_ranks |-> <<>>]

\* Lines 326-335: the start_ranks keys and the LoadGame field of each.
StartRankNames == {"combat", "trade", "exploration", "empire", "federation"}
RankField(k) ==
    CASE k = "combat" -> "Rank"
      [] k = "trade" -> "TradeRank"
      [] k = "exploration" -> "ExploreRank"
      [] k = "empire" -> "EmpireRank"
      [] k = "federation" -> "FederationRank"

\* Lines 426-433 of Promotion: the end_ranks key for a rank_type text,
\* "" when it names none ("Combat" in rank_type, and so on; the texts of
\* the model are the three words themselves).
PromotionKey(rank_type) ==
    CASE rank_type = "Combat" -> "combat"
      [] rank_type = "Trade" -> "trade"
      [] rank_type = "Exploration" -> "exploration"
      [] OTHER -> ""

\* Lines 315-335: LoadGame.
FoldLoadGame(sd, raw) ==
    [sd EXCEPT
       !.commander = IF ~Truthy(@) THEN Get(raw, "Commander", None) ELSE @,
       !.first_ship = IF ~Truthy(@) THEN Get(raw, "Ship", None) ELSE @,
       !.first_system = IF ~Truthy(@) THEN Get(raw, "StarSystem", None) ELSE @,
       !.first_credits = IF @ = NoInt THEN Some(Get(raw, "Credits", 0)) ELSE @,
       !.start_ranks =
           [k \in (DOMAIN @) \cup
                  {x \in StartRankNames : RankField(x) \in DOMAIN raw} |->
               IF RankField(k) \in DOMAIN raw THEN raw[RankField(k)]
               ELSE @[k]]]

\* Lines 315-433: the if/elif chain on the event type.
FoldEvent(sd, e, raw) ==
    CASE e = "LoadGame" -> FoldLoadGame(sd, raw)
      [] e = "FSDJump" ->
           LET system == Get(raw, "StarSystem", None)
           IN  [sd EXCEPT
                  !.jumps = @ + 1,
                  !.light_years_traveled = @ + Get(raw, "JumpDist", 0),
                  !.last_system = IF Truthy(system) THEN system ELSE @,
                  !.systems_visited =
                      IF Truthy(system) THEN @ \cup {system} ELSE @]
      [] e = "Location" ->
           LET system == Get(raw, "StarSystem", None)
           IN  [sd EXCEPT
                  !.last_system =
                      IF Truthy(system) /\ ~Truthy(@) THEN system ELSE @,
                  !.systems_visited =
                      IF Truthy(system) THEN @ \cup {system} ELSE @]
      [] e = "Docked" ->
           LET station == Get(raw, "StationName", None)
           IN  [sd EXCEPT
                  !.docked_count = @ + 1,
                  !.stations_visited =
                      IF Truthy(station) THEN @ \cup {station} ELSE @]
      [] e = "Undocked" -> [sd EXCEPT !.undocked_count = @ + 1]
      [] e = "Touchdown" -> [sd EXCEPT !.planets_landed = @ + 1]
      [] e = "Bounty" ->
           LET reward == Get(raw, "TotalReward", 0)
           IN  [sd EXCEPT
                  !.bounties_earned = @ + reward,
                  !.bounty_count = IF reward # 0 THEN @ + 1 ELSE @]
      [] e = "FactionKillBond" ->
           [sd EXCEPT !.combat_bonds = @ + Get(raw, "Reward", 0)]
      [] e = "Died" -> [sd EXCEPT !.died = TRUE, !.deaths = @ + 1]
      [] e = "Scan" -> [sd EXCEPT !.scans = @ + 1]
      [] e = "FSSBodySignals" -> [sd EXCEPT !.fss_scans = @ + 1]
      [] e = "SAAScanComplete" -> [sd EXCEPT !.dss_scans = @ + 1]
      [] e = "CodexEntry" -> [sd EXCEPT !.codex_entries = @ + 1]
      [] e = "SellExplorationData" ->
           [sd EXCEPT !.exploration_value = @ + Get(raw, "TotalEarnings", 0)]
      [] e = "MarketBuy" -> [sd EXCEPT !.market_buys = @ + 1]
      [] e = "MarketSell" ->
           LET profit == Get(raw, "TotalSale", 0)
                         - Get(raw, "AvgPricePaid", 0) * Get(raw, "Count", 0)
           IN  [sd EXCEPT
                  !.market_sells = @ + 1,
                  !.trade_profit = IF profit > 0 THEN @ + profit ELSE @]
      [] e = "MissionAccepted" -> [sd EXCEPT !.missions_accepted = @ + 1]
      [] e = "MissionCompleted" ->
           [sd EXCEPT
              !.missions_completed = @ + 1,
              !.mission_rewards = @ + Get(raw, "Reward", 0)]
      [] e = "MissionFailed" -> [sd EXCEPT !.missions_failed = @ + 1]
      [] e = "Promotion" ->
           LET key == PromotionKey(Get(raw, "Rank", ""))
           IN  IF key # ""
               THEN [sd EXCEPT !.end_ranks =
                                  DictSet(@, key, Get(raw, "NewRank", 0))]
               ELSE sd
      [] OTHER -> sd

\* Lines 295-444: one line that json.loads turned into a JSON object.
\* end_time carries last_timestamp (lines 299-300 and 450-451).
FoldLine(sd, line) ==
    LET e == line.event
        raw == line.raw
        sd1 == [sd EXCEPT
                  !.end_time = IF line.timestamp # "" THEN line.timestamp
                               ELSE @,
                  !.events = Append(@, [event |-> e,
                                        timestamp |-> line.timestamp,
                                        data |-> raw]),
                  !.total_events = @ + 1,
                  !.event_counts = DictSet(@, e, Get(@, e, 0) + 1)]
        sd2 == FoldEvent(sd1, e, raw)
        ship == Get(raw, "Ship", None)
        sd3 == IF Truthy(ship)
               THEN [sd2 EXCEPT !.last_ship = ship,
                                !.unique_ships = @ \cup {ship}]
               ELSE sd2
    IN  IF "Credits" \in DOMAIN raw
        THEN [sd3 EXCEPT !.last_credits = Some(raw["Credits"])]
        ELSE sd3

\* Lines 289-447: "for line in f".  A line that is not JSON is skipped
\* (lines 291-292 and 446-447); a line that is a JSON object is folded.
\* The lines are folded in file order.  The sequence is split in halves and
\* the first half is folded before the second is entered (the comparison
\* makes the evaluation strict), so that a long file is evaluated with a
\* shallow stack.
RECURSIVE FoldLines(_, _)
FoldLines(sd, lines) ==
    IF lines = <<>> THEN sd
    ELSE IF Len(lines) = 1
    THEN (IF lines[1].json = "object" THEN FoldLine(sd, lines[1]) ELSE sd)
    ELSE LET h == Len(lines) \div 2
             first == FoldLines(sd, SubSeq(lines, 1, h))
         IN  IF first = first
             THEN FoldLines(first, SubSeq(lines, h + 1, Len(lines)))
             ELSE first

\* Number of raw events kept at each end of a long file (lines 463-467).
EventsKept == 100

\* A plausible slip: the sample keeps the first 2 * EventsKept events.
Finish_KeepsHead(sd) ==
    LET sd1 == IF sd.first_credits # NoInt /\ sd.last_credits # NoInt
               THEN [sd EXCEPT !.credits_change =
                                  sd.last_credits[1] - sd.first_credits[1]]
               ELSE sd
        n == Len(sd1.events)
    IN  IF n > 2 * EventsKept
        THEN [events_summary |-> sd1.total_events] @@
             [sd1 EXCEPT !.events = SubSeq(@, 1, 2 * EventsKept)]
        ELSE sd1

\* Lines 449-470: what is done after the last line.  A set turned into a
\* list keeps its elements; the model keeps it as the set.
Finish(sd) ==
    LET sd1 == IF sd.first_credits # NoInt /\ sd.last_credits # NoInt
               THEN [sd EXCEPT !.credits_change =
                                  sd.last_credits[1] - sd.first_credits[1]]
               ELSE sd
        n == Len(sd1.events)
    IN  IF n > 2 * EventsKept
        THEN [events_summary |-> sd1.total_events] @@
             [sd1 EXCEPT !.events = SubSeq(@, 1, EventsKept)
                                    \o SubSeq(@, n - EventsKept + 1, n)]
        ELSE sd1

\* A plausible slip: a file that cannot be opened counts as an empty file
\* (session_data is returned instead of None).
process_log_file_UnreadableAsEmpty(name, f) ==
    IF ~f.readable THEN <<Finish(NewSessionData(name))>>
    ELSE IF \E i \in 1..Len(f.lines) : f.lines[i].json = "number" THEN <<>>
    ELSE <<Finish(FoldLines(NewSessionData(name), f.lines))>>

\* SessionManager.process_log_file(log_file): <<>> for None, <<summary>>
\* otherwise.  f is the file on disk, [lines, readable]; a file that cannot
\* be opened or read gives None (lines 227-228 and 472-474), and so does a
\* file with a line that is JSON but no object: data.get raises
\* AttributeError, which only the outer except clause catches.
process_log_file(name, f) ==
    IF ~f.readable
       \/ \E i \in 1..Len(f.lines) : f.lines[i].json = "number"
    THEN <<>>
    ELSE <<Finish(FoldLines(NewSessionData(name), f.lines))>>

\* ---- Session Store: the SQLite tables and the in-memory copies

\* json.dumps turns a dict key that is no string into a string (the int 5
\* into "5"); string keys are kept.
JsonKey(k) == IF k = PyInt5 THEN "5" ELSE k

\* The value json.loads gives back for json.dumps(session_data): every part
\* of a summary is a JSON value already, except that the keys of
\* event_counts are the values of "event", which need not be strings.
JsonRoundTrip(session_data) ==
    [session_data EXCEPT !.event_counts =
        [k \in {JsonKey(x) : x \in DOMAIN @} |->
            @[CHOOSE x \in DOMAIN @ : JsonKey(x) = k]]]

\* A plausible slip: save_sessions inserts without "DELETE FROM sessions"
\* and without replacing the rows that exist.
save_sessions_InsertNew(sess, rows) ==
    [sid \in (DOMAIN sess) \cup (DOMAIN rows) |->
        IF sid \in DOMAIN rows THEN rows[sid]
        ELSE [commander |-> IF Truthy(sess[sid].commander)
                            THEN sess[sid].commander ELSE "",
              start_time |-> IF Truthy(sess[sid].start_time)
                             THEN sess[sid].start_time ELSE "",
              data |-> JsonRoundTrip(sess[sid])]]

\* save_sessions(), lines 110-119, when the transaction commits: the rows
\* of table sessions afterwards.  data holds the JSON text, represented by
\* the value it denotes.
save_sessions(sess, rows) ==
    [sid \in DOMAIN sess |->
        [commander |-> IF Truthy(sess[sid].commander)
                       THEN sess[sid].commander ELSE "",
         start_time |-> IF Truthy(sess[sid].start_time)
                        THEN sess[sid].start_time ELSE "",
         data |-> JsonRoundTrip(sess[sid])]]

\* load_sessions(), lines 95-100: self.sessions read from the rows.
load_sessions(rows) == [sid \in DOMAIN rows |-> rows[sid].data]

\* save_processed_files(), lines 137-141, when the transaction commits.
save_processed_files(pf) == pf

\* load_processed_files(), lines 125-129.
load_processed_files(rows) == rows

\* ---- Scan Orchestrator: SessionManager.scan_all_logs

\* Bound: at most MaxLines lines in a journal file.
MaxLines == 1
\* Bound: at most MaxOps scan_all_logs calls and restarts.
MaxOps == 2

\* The journal lines of the model.
ScanLines ==
    {ObjectLine("LoadGame", "t1", [Commander |-> "A", Credits |-> 1000,
                                   Ship |-> "sidewinder"]),
     ObjectLine(PyInt5, "", <<>>),
     NumberLine}

\* sorted(self.log_dir.glob("*.log")), line 184.
ListLogFiles(d) == SelectSeq(SortedNames, LAMBDA n : n \in DOMAIN d)

\* A plausible slip: the processed-file check is left out.
ShouldSkip_Never(force_rescan, file_path_str, pf) == FALSE

\* Line 196: "if not force_rescan and file_path_str in self.processed_files".
ShouldSkip(force_rescan, file_path_str, pf) ==
    ~force_rescan /\ file_path_str \in pf

\* A plausible slip: is_cancelled is never consulted.
IsCancelled_Never(cancel_at, i) == FALSE

\* Line 190: "if is_cancelled and is_cancelled()", at the i-th file.
\* cancel_at = 0 stands for is_cancelled=None or a callback that stays
\* false; otherwise is_cancelled() is true from its cancel_at-th call on.
IsCancelled(cancel_at, i) == cancel_at # 0 /\ i >= cancel_at

\* One call progress_callback(current, total); file is the file the loop
\* was at (history).
ProgressCall(current, total, name) ==
    [current |-> current, total |-> total, file |-> name]

\* Lines 192-214: the body of the loop for log_file = name.  st holds the
\* locals and fields the loop works on; passes, marked and calls are history.
\* In the skip branch the continue statement leaves the try block through
\* its finally clause, so lines 212-214 run after lines 198-199.
ScanFile(st, name, f, force_rescan, has_callback, total) ==
    IF ShouldSkip(force_rescan, Path(name), st.processed_files)
    THEN LET c1 == IF has_callback THEN st.processed_count + 1
                   ELSE st.processed_count
             calls1 == IF has_callback
                       THEN Append(st.calls, ProgressCall(c1, total, name))
                       ELSE st.calls
         IN  [st EXCEPT
                !.processed_count = c1 + 1,
                !.calls = IF has_callback
                          THEN Append(calls1, ProgressCall(c1 + 1, total, name))
                          ELSE calls1,
                !.skipped = Append(@, name)]
    ELSE LET session_data == process_log_file(name, f)
             st1 == IF session_data # <<>>
                    THEN [st EXCEPT
                            !.sessions = DictSet(@, name, session_data[1]),
                            !.processed_files = @ \cup {Path(name)},
                            !.new_sessions = @ + 1,
                            !.marked = Append(@, name)]
                    ELSE st
         IN  [st1 EXCEPT
                !.passes = Append(@, name),
                !.processed_count = @ + 1,
                !.calls = IF has_callback
                          THEN Append(@, ProgressCall(st.processed_count + 1,
                                                      total, name))
                          ELSE @]

\* Lines 189-214: "for log_file in log_files", from the i-th file on.
RECURSIVE ScanLoop(_, _, _, _, _, _, _)
ScanLoop(st, log_files, i, d, force_rescan, has_callback, cancel_at) ==
    IF i > Len(log_files) THEN st
    ELSE IF IsCancelled(cancel_at, i) THEN [st EXCEPT !.cancelled = TRUE]
    ELSE ScanLoop(ScanFile(st, log_files[i], d[log_files[i]], force_rescan,
                           has_callback, Len(log_files)),
                  log_files, i + 1, d, force_rescan, has_callback, cancel_at)

\* Lines 184-214: the loop run on directory d from the in-memory state.
RunLoop(sess, pf, d, force_rescan, has_callback, cancel_at) ==
    ScanLoop([sessions |-> sess, processed_files |-> pf,
              new_sessions |-> 0, processed_count |-> 0,
              calls |-> <<>>, passes |-> <<>>, skipped |-> <<>>,
              marked |-> <<>>, cancelled |-> FALSE],
             ListLogFiles(d), 1, d, force_rescan, has_callback, cancel_at)

\* What the store looked like before an operation.
Snapshot ==
    [sessions |-> sessions, processed_files |-> processed_files,
     db_sessions |-> db_sessions, db_processed |-> db_processed]

NoScan ==
    [kind |-> "none", force_rescan |-> FALSE, has_callback |-> FALSE,
     cancel_at |-> 0, cancelled |-> FALSE, save_called |-> FALSE,
     sessions_ok |-> FALSE, processed_ok |-> FALSE,
     calls |-> <<>>, passes |-> <<>>, skipped |-> <<>>, marked |-> <<>>,
     repeat |-> FALSE,
     before |-> [sessions |-> <<>>, processed_files |-> {},
                 db_sessions |-> <<>>, db_processed |-> {}]]

\* No get_session_statistics call yet.
NoQuery == [kind |-> "none"]

\* The state after SessionManager() on a new database and an empty log_dir.
ScanInit ==
    /\ disk = <<>>
    /\ sessions = <<>>
    /\ processed_files = {}
    /\ db_sessions = <<>>
    /\ db_processed = {}
    /\ lastScan = NoScan
    /\ lastQuery = NoQuery
    /\ dirty = FALSE
    /\ nOps = 0

\* The game starts a new journal file.  (The changes of log_dir that follow
\* the last operation of a run are not explored: nothing reads them.)
CreateLog ==
    /\ nOps < MaxOps
    /\ \E name \in FileNames \ DOMAIN disk :
          disk' = DictSet(disk, name, [lines |-> <<>>, readable |-> TRUE])
    /\ dirty' = TRUE
    /\ UNCHANGED <<sessions, processed_files, db_sessions, db_processed,
                   lastScan, lastQuery, nOps>>
    /\ UNCHANGED <<tailVars, liveVars, dataVars, appVars, monVars>>

\* The game appends a line to a journal file.
AppendLine ==
    /\ nOps < MaxOps
    /\ \E name \in DOMAIN disk, line \in ScanLines :
          /\ Len(disk[name].lines) < MaxLines
          /\ disk' = [disk EXCEPT ![name].lines = Append(@, line)]
    /\ dirty' = TRUE
    /\ UNCHANGED <<sessions, processed_files, db_sessions, db_processed,
                   lastScan, lastQuery, nOps>>
    /\ UNCHANGED <<tailVars, liveVars, dataVars, appVars, monVars>>

\* A journal file becomes unreadable (locked, permission lost) or readable
\* again.
ToggleReadable ==
    /\ nOps < MaxOps
    /\ \E name \in DOMAIN disk :
          disk' = [disk EXCEPT ![name].readable = ~@]
    /\ dirty' = TRUE
    /\ UNCHANGED <<sessions, processed_files, db_sessions, db_processed,
                   lastScan, lastQuery, nOps>>
    /\ UNCHANGED <<tailVars, liveVars, dataVars, appVars, monVars>>

\* SessionManager.scan_all_logs(force_rescan, progress_callback,
\* is_cancelled), run to completion on a log_dir that exists.  sessions_ok
\* and processed_ok say whether the transaction of save_sessions and of
\* save_processed_files commits; a failed one is rolled back and its
\* exception is caught inside the save method (lines 120-121, 142-143).
Scan ==
    /\ nOps < MaxOps
    /\ nOps' = nOps + 1
    /\ \E force_rescan \in BOOLEAN, has_callback \in BOOLEAN,
          cancel_at \in 0..Cardinality(DOMAIN disk) :
          LET st == RunLoop(sessions, processed_files, disk, force_rescan,
                            has_callback, cancel_at)
              save == st.new_sessions > 0
          IN  \E sessions_ok \in (IF save THEN BOOLEAN ELSE {FALSE}),
                 processed_ok \in (IF save THEN BOOLEAN ELSE {FALSE}) :
                 /\ sessions' = st.sessions
                 /\ processed_files' = st.processed_files
                 /\ db_sessions' = IF save /\ sessions_ok
                                   THEN save_sessions(st.sessions, db_sessions)
                                   ELSE db_sessions
                 /\ db_processed' = IF save /\ processed_ok
                                    THEN save_processed_files(st.processed_files)
                                    ELSE db_processed
                 /\ lastScan' =
                       [kind |-> "scan", force_rescan |-> force_rescan,
                        has_callback |-> has_callback,
                        cancel_at |-> cancel_at, cancelled |-> st.cancelled,
                        save_called |-> save,
                        sessions_ok |-> sessions_ok,
                        processed_ok |-> processed_ok,
                        calls |-> st.calls, passes |-> st.passes,
                        skipped |-> st.skipped, marked |-> st.marked,
                        repeat |-> /\ lastScan.kind = "scan"
                                   /\ ~lastScan.cancelled
                                   /\ ~dirty,
                        before |-> Snapshot]
    /\ dirty' = FALSE
    /\ lastQuery' = NoQuery
    /\ UNCHANGED disk
    /\ UNCHANGED <<tailVars, liveVars, dataVars, appVars, monVars>>

\* The process restarts: SessionManager() on the same database, with no
\* legacy JSON file left to migrate (lines 26-29).
Restart ==
    /\ nOps < MaxOps
    /\ nOps' = nOps + 1
    /\ sessions' = load_sessions(db_sessions)
    /\ processed_files' = load_processed_files(db_processed)
    /\ lastScan' = [NoScan EXCEPT !.kind = "restart", !.before = Snapshot]
    /\ dirty' = FALSE
    /\ lastQuery' = NoQuery
    /\ UNCHANGED <<disk, db_sessions, db_processed>>
    /\ UNCHANGED <<tailVars, liveVars, dataVars, appVars, monVars>>

ScanNext == CreateLog \/ AppendLine \/ ToggleReadable \/ Scan \/ Restart

\* ---- what the last scan_all_logs call did, read off the history

AfterScan == lastScan.kind = "scan"

\* The files the loop body ran for: archival pass or skip.
Reached == {lastScan.passes[i] : i \in 1..Len(lastScan.passes)}
           \cup {lastScan.skipped[i] : i \in 1..Len(lastScan.skipped)}
Passes == {lastScan.passes[i] : i \in 1..Len(lastScan.passes)}
Marked == {lastScan.marked[i] : i \in 1..Len(lastScan.marked)}

\* The entry of file name is the same in the two stores.
SameEntry(sess1, pf1, sess2, pf2, name) ==
    /\ (name \in DOMAIN sess1) = (name \in DOMAIN sess2)
    /\ name \in DOMAIN sess1 => sess1[name] = sess2[name]
    /\ (Path(name) \in pf1) = (Path(name) \in pf2)

(* C4: during scan_all_logs with a progress_callback, the k-th call of the
   callback carries completed_count = k, completed_count never exceeds
   total_count, and the callback is called exactly once for each file the
   loop handled (processed, skipped or failed). *)
C4_ProgressOncePerFile ==
    (AfterScan /\ lastScan.has_callback) =>
        /\ \A k \in 1..Len(lastScan.calls) :
              /\ lastScan.calls[k].current = k
              /\ lastScan.calls[k].current <= lastScan.calls[k].total
        /\ \A name \in Reached :
              Cardinality({k \in 1..Len(lastScan.calls) :
                              lastScan.calls[k].file = name}) = 1

(* C5: every path in the processed-file set, in memory and in the database,
   has a stored SessionSummary whose session_id is that file's name. *)
C5_ProcessedHaveSummary ==
    /\ \A p \in processed_files :
          \E n \in DOMAIN sessions :
              Path(n) = p /\ sessions[n].session_id = n
    /\ \A p \in load_processed_files(db_processed) :
          \E n \in DOMAIN db_sessions :
              Path(n) = p /\ load_sessions(db_sessions)[n].session_id = n

(* C6: a scan_all_logs(force_rescan=false) call that follows a scan that ran
   to the end, with no file added or changed in between, leaves sessions,
   processed_files and both database tables as they were and marks no file
   as newly processed. *)
C6_IdempotentScan ==
    (AfterScan /\ ~lastScan.force_rescan /\ lastScan.repeat) =>
        /\ sessions = lastScan.before.sessions
        /\ processed_files = lastScan.before.processed_files
        /\ db_sessions = lastScan.before.db_sessions
        /\ db_processed = lastScan.before.db_processed
        /\ lastScan.marked = <<>>

\* A second run that skipped a processed file and retried an unreadable one.
C6_Witness ==
    /\ AfterScan /\ ~lastScan.force_rescan /\ lastScan.repeat
    /\ lastScan.skipped # <<>>
    /\ lastScan.passes # <<>>
    /\ processed_files # {}

(* C7: when is_cancelled() returns true at the check before the k-th file,
   the k-th and later files are neither processed, skipped, reported nor
   marked and their entries stay as they were; every file processed earlier
   in that scan is in sessions with its summary and in processed_files, the
   two save methods are called, and each table whose write commits holds
   those files. *)
C7_CancelStopsAndKeeps ==
    (AfterScan /\ lastScan.cancel_at # 0 /\ ~dirty) =>
        LET files == ListLogFiles(disk)
        IN  /\ \A i \in lastScan.cancel_at..Len(files) :
                  /\ files[i] \notin Reached \cup Marked
                  /\ \A k \in 1..Len(lastScan.calls) :
                        lastScan.calls[k].file # files[i]
                  /\ SameEntry(sessions, processed_files,
                               lastScan.before.sessions,
                               lastScan.before.processed_files, files[i])
            /\ \A n \in Marked :
                  /\ n \in DOMAIN sessions
                  /\ <<sessions[n]>> = process_log_file(n, disk[n])
                  /\ Path(n) \in processed_files
                  /\ lastScan.save_called
                  /\ lastScan.sessions_ok =>
                        /\ n \in DOMAIN db_sessions
                        /\ db_sessions[n].data = JsonRoundTrip(sessions[n])
                  /\ lastScan.processed_ok => Path(n) \in db_processed

\* A scan of two files cancelled before the second, the first one processed
\* and written to both tables.
C7_Witness ==
    /\ AfterScan /\ ~dirty
    /\ lastScan.cancel_at = 2
    /\ Len(ListLogFiles(disk)) = 2
    /\ lastScan.marked = <<SortedNames[1]>>
    /\ lastScan.sessions_ok /\ lastScan.processed_ok

(* C8: after a scan_all_logs call that processed at least one file and whose
   database writes did not fail, a fresh SessionManager built on the same
   database has exactly the sessions and the processed_files the scan left
   in memory. *)
C8_RestartSeesSame ==
    (AfterScan /\ lastScan.marked # <<>>
     /\ lastScan.sessions_ok /\ lastScan.processed_ok) =>
        /\ load_sessions(db_sessions) = sessions
        /\ load_processed_files(db_processed) = processed_files

(* C9: with force_rescan=false no archival pass is run on a file whose path
   is in processed_files and its stored summary stays as it was, even if the
   file has grown; with force_rescan=true (and no cancellation) every file
   that can be read has its summary replaced by that of a fresh archival
   pass over its lines. *)
C9_SkipKeepsForceReplaces ==
    (AfterScan /\ ~dirty) =>
        /\ ~lastScan.force_rescan =>
              \A n \in DOMAIN disk :
                  Path(n) \in lastScan.before.processed_files =>
                      /\ n \notin Passes
                      /\ SameEntry(sessions, processed_files,
                                   lastScan.before.sessions,
                                   lastScan.before.processed_files, n)
        /\ (lastScan.force_rescan /\ lastScan.cancel_at = 0) =>
              \A n \in DOMAIN disk :
                  disk[n].readable =>
                      /\ n \in DOMAIN sessions
                      /\ sessions[n] =
                            Finish(FoldLines(NewSessionData(n), disk[n].lines))

\* log_dir without the file name.
Without(d, name) == [m \in (DOMAIN d) \ {name} |-> d[m]]

(* C10: in a scan, a file that cannot be opened or read gives None for that
   file only: its entries in sessions and processed_files stay as they were
   (a file not yet processed is not skipped by the next scan), the scan goes
   on to the files after it, and every other file ends as in a scan of the
   directory without the unreadable file. *)
C10_UnreadableFileIsolated ==
    (AfterScan /\ ~dirty) =>
        \A n \in Passes :
            ~disk[n].readable =>
                LET files == ListLogFiles(disk)
                    alt == RunLoop(lastScan.before.sessions,
                                   lastScan.before.processed_files,
                                   Without(disk, n), lastScan.force_rescan,
                                   lastScan.has_callback, 0)
                IN  /\ n \notin Marked
                    /\ SameEntry(sessions, processed_files,
                                 lastScan.before.sessions,
                                 lastScan.before.processed_files, n)
                    /\ Path(n) \notin lastScan.before.processed_files =>
                          ~ShouldSkip(FALSE, Path(n), processed_files)
                    /\ \A i \in 1..Len(files) :
                          (lastScan.cancel_at = 0 \/ i < lastScan.cancel_at)
                              => files[i] \in Reached
                    /\ lastScan.cancel_at = 0 =>
                          \A m \in (DOMAIN disk) \ {n} :
                              /\ SameEntry(sessions, processed_files,
                                           alt.sessions, alt.processed_files,
                                           m)
                              /\ (m \in Passes) =
                                    (m \in {alt.passes[i] :
                                               i \in 1..Len(alt.passes)})

\* The first of two files could not be read and the scan went on to
\* process the second.
C10_Witness ==
    /\ AfterScan /\ ~dirty
    /\ Len(ListLogFiles(disk)) = 2
    /\ ~disk[SortedNames[1]].readable
    /\ lastScan.passes = SortedNames
    /\ lastScan.marked = <<SortedNames[2]>>

(***************************************************************************)
(*              ONE JOURNAL, TWO AGGREGATORS, AND THE ROLLUP               *)
(***************************************************************************)

\* Bound: at most MaxJournal journal lines are written.
MaxJournal == 3

\* The journal lines the game writes in these runs, all JSON objects.
JournalLines ==
    {ObjectLine("LoadGame", "t",
                [Commander |-> "A", Credits |-> 1000, Ship |-> "sidewinder"]),
     ObjectLine("LoadGame", "t", [Commander |-> "B", Credits |-> 700]),
     ObjectLine("FSDJump", "t", [StarSystem |-> "Lave", JumpDist |-> 5]),
     ObjectLine("Docked", "t", [StationName |-> "Hub"]),
     ObjectLine("Bounty", "t", [TotalReward |-> 100]),
     ObjectLine("Died", "t", <<>>),
     ObjectLine("MissionCompleted", "t", [Reward |-> 50])}

\* The event record parse_log_line builds for an object line of a file
\* (src/log_monitor.py, lines 62-68).
EventOf(name, line) ==
    [event |-> line.event, timestamp |-> line.timestamp,
     log_file |-> Path(name), raw |-> line.raw]

\* The game writes one line to a journal file (creating the file with it);
\* the tailing reader delivers the line to on_log_event, which folds it
\* into the Live Aggregator.
WriteLine ==
    /\ nEvents < MaxJournal
    /\ \E name \in FileNames, line \in JournalLines :
          /\ disk' = IF name \in DOMAIN disk
                     THEN [disk EXCEPT ![name].lines = Append(@, line)]
                     ELSE DictSet(disk, name,
                                  [lines |-> <<line>>, readable |-> TRUE])
          /\ tracker' = process_event(tracker, EventOf(name, line))
          /\ lastEvent' = EventOf(name, line)
    /\ prevTracker' = tracker
    /\ nEvents' = nEvents + 1
    /\ lastCall' = NoCall
    /\ dirty' = TRUE
    /\ UNCHANGED <<sessions, processed_files, db_sessions, db_processed,
                   lastScan, lastQuery, nOps>>
    /\ UNCHANGED <<tailVars, dataVars, appVars, monVars>>

\* log_dir holds one journal file, it begins with a LoadGame that carries a
\* commander, and every line of it was folded by the Live Aggregator.
SingleFileSession ==
    /\ Cardinality(DOMAIN disk) = 1
    /\ \A name \in DOMAIN disk :
          /\ Len(disk[name].lines) = nEvents
          /\ disk[name].lines[1].event = "LoadGame"
          /\ Truthy(Get(disk[name].lines[1].raw, "Commander", None))

(* C19: for one journal file that begins with a LoadGame carrying a
   commander, the Live Aggregator fed with its lines and the Archival
   Aggregator run on the file agree on jumps, planets_landed,
   bounties_earned, combat_bonds, kills, deaths, scans, fss_scans,
   dss_scans, exploration_value, trade_profit, missions_completed and
   mission_rewards and on the sets systems_visited and stations_visited. *)
C19_LiveEqualsArchival ==
    SingleFileSession =>
        \A name \in DOMAIN disk :
            LET sd == process_log_file(name, disk[name])[1]
            IN  /\ tracker.jumps = sd.jumps
                /\ tracker.planets_landed = sd.planets_landed
                /\ tracker.bounties_earned = sd.bounties_earned
                /\ tracker.combat_bonds = sd.combat_bonds
                /\ tracker.kills = sd.kills
                /\ tracker.deaths = sd.deaths
                /\ tracker.scans = sd.scans
                /\ tracker.fss_scans = sd.fss_scans
                /\ tracker.dss_scans = sd.dss_scans
                /\ tracker.exploration_value = sd.exploration_value
                /\ tracker.trade_profit = sd.trade_profit
                /\ tracker.missions_completed = sd.missions_completed
                /\ tracker.mission_rewards = sd.mission_rewards
                /\ tracker.systems_visited = sd.systems_visited
                /\ tracker.stations_visited = sd.stations_visited

\* ---- the cross-session rollup

\* sort_key(x), lines 500-503 and 513-516: "" for a start_time of None.
sort_key(x) == IF Truthy(x.start_time) THEN x.start_time ELSE ""

\* The sort keys of the model in the order Python gives to strings, and the
\* place of a key in that order.
SortKeys == <<"", "2024-01-01T00:00:00", "2024-01-02T00:00:00">>
KeyRank(k) == CHOOSE i \in 1..Len(SortKeys) : SortKeys[i] = k

\* A plausible slip: reverse=True is left out of the sort.
RECURSIVE SortedSessions_Ascending(_, _)
SortedSessions_Ascending(sess, ids) ==
    IF ids = {} THEN <<>>
    ELSE LET n == CHOOSE x \in ids : \A y \in ids :
                      KeyRank(sort_key(sess[x])) <= KeyRank(sort_key(sess[y]))
         IN  <<sess[n]>> \o SortedSessions_Ascending(sess, ids \ {n})

\* sessions.sort(key=sort_key, reverse=True) on the sessions with an id in
\* ids (lines 505 and 518).  Sessions with equal keys keep the order of the
\* dict in Python; the model, which keeps no dict order, fixes one.
RECURSIVE SortedSessions(_, _)
SortedSessions(sess, ids) ==
    IF ids = {} THEN <<>>
    ELSE LET n == CHOOSE x \in ids : \A y \in ids :
                      KeyRank(sort_key(sess[x])) >= KeyRank(sort_key(sess[y]))
         IN  <<sess[n]>> \o SortedSessions(sess, ids \ {n})

get_sessions_for_commander(sess, commander_name) ==
    SortedSessions(sess,
                   {n \in DOMAIN sess : sess[n].commander = commander_name})

\* get_all_sessions(limit=None)
get_all_sessions(sess) == SortedSessions(sess, DOMAIN sess)

\* sum(s.get(field, 0) for s in sessions)
RECURSIVE SumOf(_, _)
SumOf(lst, field) ==
    IF lst = <<>> THEN 0 ELSE Head(lst)[field] + SumOf(Tail(lst), field)

\* sum(1 for s in sessions if s.get("died", False))
RECURSIVE DiedCount(_)
DiedCount(lst) ==
    IF lst = <<>> THEN 0
    ELSE (IF Head(lst).died THEN 1 ELSE 0) + DiedCount(Tail(lst))

\* SessionManager.get_session_statistics(commander_name); light years are
\* whole numbers in the model, so round(., 2) changes nothing.
get_session_statistics(sess, commander_name) ==
    LET lst == IF Truthy(commander_name)
               THEN get_sessions_for_commander(sess, commander_name)
               ELSE get_all_sessions(sess)
    IN  IF lst = <<>>
        THEN [total_sessions |-> 0, total_jumps |-> 0,
              total_light_years |-> 0, total_docked |-> 0,
              total_planets_landed |-> 0, total_events |-> 0,
              total_credits_change |-> 0, total_kills |-> 0,
              total_deaths |-> 0, total_bounties |-> 0,
              total_combat_bonds |-> 0, total_exploration_value |-> 0,
              total_trade_profit |-> 0, total_mission_rewards |-> 0,
              total_systems_visited |-> 0, total_stations_visited |-> 0,
              total_scans |-> 0, total_missions_completed |-> 0,
              deaths |-> 0]
        ELSE [total_sessions |-> Len(lst),
              total_jumps |-> SumOf(lst, "jumps"),
              total_light_years |-> SumOf(lst, "light_years_traveled"),
              total_docked |-> SumOf(lst, "docked_count"),
              total_planets_landed |-> SumOf(lst, "planets_landed"),
              total_events |-> SumOf(lst, "total_events"),
              total_kills |-> SumOf(lst, "kills"),
              total_deaths |-> DiedCount(lst),
              total_credits_change |-> SumOf(lst, "credits_change"),
              total_bounties |-> SumOf(lst, "bounties_earned"),
              total_combat_bonds |-> SumOf(lst, "combat_bonds"),
              total_exploration_value |-> SumOf(lst, "exploration_value"),
              total_trade_profit |-> SumOf(lst, "trade_profit"),
              total_mission_rewards |-> SumOf(lst, "mission_rewards"),
              total_systems_visited |->
                  Cardinality(UNION {lst[i].systems_visited :
                                        i \in 1..Len(lst)}),
              total_stations_visited |->
                  Cardinality(UNION {lst[i].stations_visited :
                                        i \in 1..Len(lst)}),
              total_scans |-> SumOf(lst, "scans"),
              total_fss_scans |-> SumOf(lst, "fss_scans"),
              total_dss_scans |-> SumOf(lst, "dss_scans"),
              total_codex_entries |-> SumOf(lst, "codex_entries"),
              total_missions_accepted |-> SumOf(lst, "missions_accepted"),
              total_missions_completed |-> SumOf(lst, "missions_completed"),
              total_missions_failed |-> SumOf(lst, "missions_failed"),
              deaths |-> DiedCount(lst),
              first_session |-> lst[Len(lst)].start_time,
              last_session |-> lst[1].start_time]

\* scan_all_logs() as the application calls it after log_dir changed
\* (src/main.py, initial_session_scan and check_new_sessions): no forced
\* re-scan, no callback, no cancellation; the database writes commit.
Archive ==
    /\ dirty
    /\ LET st == RunLoop(sessions, processed_files, disk, FALSE, FALSE, 0)
           save == st.new_sessions > 0
       IN  /\ sessions' = st.sessions
           /\ processed_files' = st.processed_files
           /\ db_sessions' = IF save
                             THEN save_sessions(st.sessions, db_sessions)
                             ELSE db_sessions
           /\ db_processed' = IF save
                              THEN save_processed_files(st.processed_files)
                              ELSE db_processed
           /\ lastScan' =
                 [kind |-> "scan", force_rescan |-> FALSE,
                  has_callback |-> FALSE, cancel_at |-> 0,
                  cancelled |-> st.cancelled, save_called |-> save,
                  sessions_ok |-> save, processed_ok |-> save,
                  calls |-> st.calls, passes |-> st.passes,
                  skipped |-> st.skipped, marked |-> st.marked,
                  repeat |-> FALSE, before |-> Snapshot]
    /\ dirty' = FALSE
    /\ lastQuery' = NoQuery
    /\ UNCHANGED <<disk, nOps>>
    /\ UNCHANGED <<tailVars, liveVars, dataVars, appVars, monVars>>

\* The commander names a caller asks the rollup for; None asks for all.
QueryNames == {None, "A", "B"}

\* get_session_statistics(commander_name) is called and its result kept.
Query ==
    /\ \E commander_name \in QueryNames :
          lastQuery' = [kind |-> "query", commander_name |-> commander_name,
                        stats |-> get_session_statistics(sessions,
                                                         commander_name)]
    /\ UNCHANGED <<disk, sessions, processed_files, db_sessions,
                   db_processed, lastScan, dirty, nOps>>
    /\ UNCHANGED <<tailVars, liveVars, dataVars, appVars, monVars>>

JournalNext == WriteLine \/ Archive \/ Query

\* The ids of the sessions a query for commander_name matches.
Matching(commander_name) ==
    IF Truthy(commander_name)
    THEN {n \in DOMAIN sessions : sessions[n].commander = commander_name}
    ELSE DOMAIN sessions

\* The sum of a counter over the sessions with an id in ids.
RECURSIVE Total(_, _)
Total(ids, field) ==
    IF ids = {} THEN 0
    ELSE LET n == CHOOSE x \in ids : TRUE
         IN  sessions[n][field] + Total(ids \ {n}, field)

\* The number of Bounty and FactionKillBond events with a positive reward
\* among the events recorded for session n.
KillEvents(n) ==
    Cardinality({i \in 1..Len(sessions[n].events) :
        LET ev == sessions[n].events[i]
        IN  \/ ev.event = "Bounty" /\ Get(ev.data, "TotalReward", 0) > 0
            \/ ev.event = "FactionKillBond" /\ Get(ev.data, "Reward", 0) > 0})

RECURSIVE TotalKillEvents(_)
TotalKillEvents(ids) ==
    IF ids = {} THEN 0
    ELSE LET n == CHOOSE x \in ids : TRUE
         IN  KillEvents(n) + TotalKillEvents(ids \ {n})

(* C20: get_session_statistics returns, over the sessions that match the
   query, the sum of every counter: total_deaths is the sum of the sessions'
   deaths, total_kills the number of Bounty and FactionKillBond events with
   a positive reward in their files, and total_systems_visited and
   total_stations_visited the numbers of distinct names. *)
C20_RollupSums ==
    lastQuery.kind = "query" =>
        LET M == Matching(lastQuery.commander_name)
            st == lastQuery.stats
        IN  /\ st.total_sessions = Cardinality(M)
            /\ st.total_jumps = Total(M, "jumps")
            /\ st.total_docked = Total(M, "docked_count")
            /\ st.total_planets_landed = Total(M, "planets_landed")
            /\ st.total_events = Total(M, "total_events")
            /\ st.total_credits_change = Total(M, "credits_change")
            /\ st.total_bounties = Total(M, "bounties_earned")
            /\ st.total_combat_bonds = Total(M, "combat_bonds")
            /\ st.total_exploration_value = Total(M, "exploration_value")
            /\ st.total_trade_profit = Total(M, "trade_profit")
            /\ st.total_mission_rewards = Total(M, "mission_rewards")
            /\ st.total_scans = Total(M, "scans")
            /\ st.total_missions_completed = Total(M, "missions_completed")
            /\ st.total_deaths = Total(M, "deaths")
            /\ st.total_kills = TotalKillEvents(M)
            /\ st.total_systems_visited =
                  Cardinality(UNION {sessions[n].systems_visited : n \in M})
            /\ st.total_stations_visited =
                  Cardinality(UNION {sessions[n].stations_visited : n \in M})

\* The keys of the rollup record that hold a number (first_session and
\* last_session hold start times).
NumericKeys(stats) == DOMAIN stats \ {"first_session", "last_session"}

(* C21: the record get_session_statistics returns when no session matches
   has every key of the record it returns when sessions match, and every
   numeric key of that record is 0 in it (so neither missing nor null). *)
C21_EmptyRollupFullyPopulated ==
    (lastQuery.kind = "query" /\ Matching(lastQuery.commander_name) = {}) =>
        \A c \in QueryNames :
            Matching(c) # {} =>
                LET full == get_session_statistics(sessions, c)
                IN  /\ \A k \in DOMAIN full : k \in DOMAIN lastQuery.stats
                    /\ \A k \in NumericKeys(full) : lastQuery.stats[k] = 0

(***************************************************************************)
(*                  THE EVENT SAMPLE OF A LONG JOURNAL                     *)
(*                                                                         *)
(* One journal file grows line by line and is then summarised by           *)
(* process_new_log_file; the file is long enough for the sample of raw     *)
(* events to be cut to its first and last EventsKept entries.              *)
(***************************************************************************)

MaxFileLines == 203
MaxBadLines == 1

\* The file the game writes.
LongJournal == SortedNames[1]

\* The k-th event line of the long journal: an event type the fold has no
\* rule for, told apart from the other lines by its sequence number.
NumberedLine(k) == ObjectLine("Music", "t", [Seq |-> k])

\* The lines of a file that json.loads accepts (lines 294-295).
Decodable(lines) ==
    SelectSeq(lines, LAMBDA l : l.json \in {"object", "number"})

\* The number of lines of a file that are no JSON object.
BadLines(lines) == Len(lines) - Len(SelectSeq(lines, LAMBDA l : l.json = "object"))

\* The game writes one more line to the journal, which was not summarised
\* yet: the next numbered event or a line that is no JSON.
LogLine ==
    /\ Path(LongJournal) \notin processed_files
    /\ LET lines == IF LongJournal \in DOMAIN disk
                    THEN disk[LongJournal].lines ELSE <<>>
       IN  /\ Len(lines) < MaxFileLines
           /\ \E line \in {NumberedLine(Len(lines) + 1), InvalidLine} :
                 /\ line.json # "object" => BadLines(lines) < MaxBadLines
                 /\ disk' = DictSet(disk, LongJournal,
                                    [lines |-> Append(lines, line),
                                     readable |-> TRUE])
    /\ dirty' = TRUE
    /\ UNCHANGED <<sessions, processed_files, db_sessions, db_processed,
                   lastScan, lastQuery, nOps>>
    /\ UNCHANGED <<tailVars, liveVars, dataVars, appVars, monVars>>

\* SessionManager.process_new_log_file(log_file) for a journal of log_dir
\* that was not processed yet, the database writes committing.
process_new_log_file ==
    /\ \E name \in DOMAIN disk :
          /\ Path(name) \notin processed_files
          /\ LET session_data == process_log_file(name, disk[name])
             IN  IF session_data # <<>>
                 THEN /\ sessions' = DictSet(sessions, name, session_data[1])
                      /\ processed_files' = processed_files \cup {Path(name)}
                      /\ db_sessions' = save_sessions(sessions', db_sessions)
                      /\ db_processed' =
                            save_processed_files(processed_files')
                 ELSE UNCHANGED <<sessions, processed_files, db_sessions,
                                  db_processed>>
    /\ dirty' = FALSE
    /\ lastQuery' = NoQuery
    /\ UNCHANGED <<disk, lastScan, nOps>>
    /\ UNCHANGED <<tailVars, liveVars, dataVars, appVars, monVars>>

SampleNext == LogLine \/ process_new_log_file

\* The entry the fold records for an object line (lines 303-307).
EventEntry(line) ==
    [event |-> line.event, timestamp |-> line.timestamp, data |-> line.raw]

(* C22: the summary process_log_file returns for a file with n decodable
   lines has total_events = n; for n <= 200 its events are the n entries in
   file order and it has no events_summary; for n > 200 its events are the
   first 100 followed by the last 100 entries and it has events_summary. *)
C22_SampleTruncation ==
    \A name \in DOMAIN sessions :
        LET sd == sessions[name]
            lines == Decodable(disk[name].lines)
            n == Len(lines)
        IN  /\ sd.total_events = n
            /\ n <= 200 =>
                  /\ sd.events = [i \in 1..n |-> EventEntry(lines[i])]
                  /\ "events_summary" \notin DOMAIN sd
            /\ n > 200 =>
                  /\ Len(sd.events) = 200
                  /\ \A i \in 1..100 :
                        /\ sd.events[i] = EventEntry(lines[i])
                        /\ sd.events[100 + i] = EventEntry(lines[n - 100 + i])
                  /\ "events_summary" \in DOMAIN sd

\* A journal of more than 201 event lines, one undecodable line among
\* them, was summarised.
C22_Witness ==
    /\ LongJournal \in DOMAIN sessions
    /\ sessions[LongJournal].total_events > 201
    /\ Len(disk[LongJournal].lines) > sessions[LongJournal].total_events

(***************************************************************************)
(*                       FACTION STANDINGS, LIVE                           *)
(*                                                                         *)
(* The Live Aggregator is fed the LoadGame that starts a session and       *)
(* Reputation events of both journal forms, with textual and numeric       *)
(* ratings.                                                                *)
(***************************************************************************)

MaxStandingEvents == 3

\* The ratings a journal line carries for a faction: a text, a number, or a
\* JSON value that is neither (null).
RatingTexts == {"Hostile", "unfriendly", "Neutral", "Cordial", "Friendly",
                " ALLIED ", "Unknown", ""}
RatingNumbers == {40, 150, 0 - 5}
Ratings ==
    {[str |-> x] : x \in RatingTexts} \cup {[num |-> n] : n \in RatingNumbers}
    \cup {[null |-> TRUE]}

\* The ratings of the lines that name two factions.
PairRatings == {[str |-> "Friendly"], [str |-> "Unknown"], [num |-> 40]}

\* The fields of the Reputation lines: the "Factions" array form with one
\* entry (possibly without a Name) or two entries, and the flat form with
\* one or two faction keys.
ReputationRaws ==
    {[Factions |-> <<[Name |-> n, Reputation |-> r]>>] :
        n \in {"X", None}, r \in Ratings}
    \cup
    {[Factions |-> <<[Name |-> "X", Reputation |-> r1],
                     [Name |-> n, Reputation |-> r2]>>] :
        n \in {"X", "Y"}, r1 \in PairRatings, r2 \in PairRatings}
    \cup {[X |-> r] : r \in Ratings}
    \cup {[X |-> r1, Y |-> r2] : r1 \in PairRatings, r2 \in PairRatings}

StandingEvents(n) ==
    {[event |-> "LoadGame", timestamp |-> Timestamp(n),
      log_file |-> "Journal.1.log",
      raw |-> [Commander |-> "A", Credits |-> 1000]]}
    \cup
    {[event |-> "Reputation", timestamp |-> Timestamp(n),
      log_file |-> "Journal.1.log", raw |-> r] : r \in ReputationRaws}

\* on_event delivers one of these events to process_event.
FeedStanding ==
    /\ nEvents < MaxStandingEvents
    /\ \E ev \in StandingEvents(nEvents + 1) :
          /\ tracker' = process_event(tracker, ev)
          /\ lastEvent' = ev
    /\ prevTracker' = tracker
    /\ nEvents' = nEvents + 1
    /\ lastCall' = NoCall
    /\ UNCHANGED <<tailVars, scanVars, dataVars, appVars, monVars>>

StandingNext == FeedStanding

\* The six recognised rating texts and their values.
RatingTable ==
    [hostile |-> 0, unfriendly |-> 25, neutral |-> 50, cordial |-> 60,
     friendly |-> 75, allied |-> 100]

\* The rating is one of the six recognised texts, letter case and
\* surrounding blanks aside.
Recognised(rating) ==
    "str" \in DOMAIN rating /\ lower_stripped(rating.str) \in DOMAIN RatingTable

\* The factions a Reputation line names and, in line order, the ratings it
\* gives for one of them.
FactionsOf(raw) ==
    IF "Factions" \in DOMAIN raw
    THEN {raw["Factions"][i].Name : i \in 1..Len(raw["Factions"])} \ {None}
    ELSE DOMAIN raw

RatingsFor(raw, name) ==
    IF "Factions" \in DOMAIN raw
    THEN LET es == SelectSeq(raw["Factions"], LAMBDA e : e.Name = name)
         IN  [i \in 1..Len(es) |-> es[i].Reputation]
    ELSE <<raw[name]>>

\* A Reputation event was folded into an active session.
ReputationFolded == SessionWasActive /\ lastEvent.event = "Reputation"

(* C23: a Reputation event sets reputation[name] to the value of the table
   (hostile 0, unfriendly 25, neutral 50, cordial 60, friendly 75, allied
   100, letter case aside) for each faction whose rating is a recognised
   text, and neither creates nor overwrites the entry of a faction whose
   rating is a text that is not recognised.  When a line rates a faction
   more than once, its last recognised or numeric rating counts. *)
C23_ReputationTextMapping ==
    ReputationFolded =>
        \A name \in FactionsOf(lastEvent.raw) :
            LET rs == RatingsFor(lastEvent.raw, name)
                set == SelectSeq(rs, LAMBDA r : Recognised(r)
                                                \/ "num" \in DOMAIN r)
            IN  IF set = <<>>
                THEN /\ name \in DOMAIN tracker.reputation
                          <=> name \in DOMAIN prevTracker.reputation
                     /\ name \in DOMAIN tracker.reputation =>
                          tracker.reputation[name]
                              = prevTracker.reputation[name]
                ELSE Recognised(set[Len(set)]) =>
                        /\ name \in DOMAIN tracker.reputation
                        /\ tracker.reputation[name]
                              = RatingTable[lower_stripped(set[Len(set)].str)]

\* One line gave faction X a recognised text and faction Y, which had an
\* entry, a text that is not recognised.
C23_Witness ==
    /\ ReputationFolded
    /\ "Factions" \in DOMAIN lastEvent.raw
    /\ Len(lastEvent.raw["Factions"]) = 2
    /\ lastEvent.raw["Factions"][1] =
          [Name |-> "X", Reputation |-> [str |-> "Friendly"]]
    /\ lastEvent.raw["Factions"][2] =
          [Name |-> "Y", Reputation |-> [str |-> "Unknown"]]
    /\ "Y" \in DOMAIN prevTracker.reputation
    /\ tracker.reputation["X"] = 75

(* C24: in every reachable state of the Live Aggregator every value of the
   reputation map lies in the range 0 to 100, whatever textual or numeric
   ratings the folded Reputation events carried. *)
C24_ReputationRange ==
    \A name \in DOMAIN tracker.reputation :
        tracker.reputation[name] >= 0 /\ tracker.reputation[name] <= 100

(***************************************************************************)
(*              THE OTHER METHODS OF THE LIVE AGGREGATOR                   *)
(*                                                                         *)
(* Between events the application hands a startup snapshot to the tracker  *)
(* (set_startup_snapshot) and the screens read it (get_statistics) and are *)
(* free to write to the structure they were given.                         *)
(***************************************************************************)

MaxApiEvents == 3

ApiEvents(n) ==
    {[event |-> e.event, timestamp |-> Timestamp(n),
      log_file |-> "Journal.1.log", raw |-> e.raw] :
        e \in {[event |-> "LoadGame",
                raw |-> [Commander |-> "A", Credits |-> 1000]],
               [event |-> "FSDJump",
                raw |-> [StarSystem |-> "Lave", JumpDist |-> 5]],
               [event |-> "MissionAccepted", raw |-> MissionRaw(Some(7))],
               [event |-> "MissionCompleted", raw |-> MissionRaw(Some(7))],
               [event |-> "MissionFailed", raw |-> MissionRaw(Some(7))],
               [event |-> "Reputation", raw |-> [X |-> [num |-> 40]]],
               [event |-> "Rank", raw |-> [Combat |-> 3, Trade |-> 2]]}}

\* on_event delivers one of these events to process_event.
FeedApi ==
    /\ nEvents < MaxApiEvents
    /\ \E ev \in ApiEvents(nEvents + 1) :
          /\ tracker' = process_event(tracker, ev)
          /\ lastEvent' = ev
    /\ prevTracker' = tracker
    /\ nEvents' = nEvents + 1
    /\ lastCall' = NoCall
    /\ UNCHANGED <<tailVars, scanVars, dataVars, appVars, monVars>>

\* The snapshots handed to set_startup_snapshot: a dict whose values are
\* dicts, [dict |-> d], or something else, [null |-> TRUE].
StartupSnapshots ==
    {<<>>,
     [load_game |-> [dict |-> [Commander |-> "A", Credits |-> 1000]],
      ranks |-> [dict |-> [Combat |-> 3]],
      progress |-> [dict |-> [Combat |-> 40]],
      powerplay |-> [dict |-> <<>>],
      reputation |-> [dict |-> [Empire |-> 75]]],
     [ranks |-> [dict |-> [Combat |-> 5]]],
     [ranks |-> [null |-> TRUE],
      reputation |-> [dict |-> [Federation |-> 10]]]}

\* A plausible slip: the standings of the snapshot are also written to the
\* live reputation map.
set_startup_snapshot_AlsoLive(t, snapshot) ==
    IF DOMAIN snapshot = {} THEN t
    ELSE [t EXCEPT
            !.startup_snapshot =
                [key \in DOMAIN @ |->
                    IF key \in DOMAIN snapshot
                       /\ "dict" \in DOMAIN snapshot[key]
                    THEN snapshot[key].dict ELSE @[key]],
            !.reputation =
                IF "reputation" \in DOMAIN snapshot
                   /\ "dict" \in DOMAIN snapshot["reputation"]
                THEN snapshot["reputation"].dict ELSE @]

\* CurrentSessionTracker.set_startup_snapshot(snapshot): the tracker it
\* leaves.
set_startup_snapshot(t, snapshot) ==
    IF DOMAIN snapshot = {} THEN t
    ELSE [t EXCEPT
            !.startup_snapshot =
                [key \in DOMAIN @ |->
                    IF key \in DOMAIN snapshot
                       /\ "dict" \in DOMAIN snapshot[key]
                    THEN snapshot[key].dict ELSE @[key]]]

\* select_commander and revalidation hand a snapshot to the tracker.
SetStartupSnapshot ==
    /\ \E snapshot \in StartupSnapshots :
          /\ tracker' = set_startup_snapshot(tracker, snapshot)
          /\ lastCall' = [op |-> "set_startup_snapshot",
                          snapshot |-> snapshot]
    /\ prevTracker' = tracker
    /\ UNCHANGED <<lastEvent, nEvents>>
    /\ UNCHANGED <<tailVars, scanVars, dataVars, appVars, monVars>>

\* list(lst): a new list of the same mission objects.  An entry of the copy
\* is a reference to the tracker's record: the list it is in and its place.
MissionRefs(name, lst) == [i \in 1..Len(lst) |-> [list |-> name, index |-> i]]

\* CurrentSessionTracker.get_statistics(): the structure it returns.
get_statistics(t) ==
    [commander |-> t.commander,
     start_time |-> t.start_time,
     current_system |-> t.current_system,
     current_ship |-> t.current_ship,
     credits |-> [start |-> t.start_credits,
                  current |-> t.current_credits,
                  change |-> IF t.start_credits # NoInt
                                /\ t.current_credits # NoInt
                             THEN t.current_credits[1] - t.start_credits[1]
                             ELSE 0,
                  earned |-> t.money_earned,
                  spent |-> t.money_spent],
     travel |-> [light_years |-> t.light_years_traveled,
                 jumps |-> t.jumps,
                 systems_visited |-> Cardinality(t.systems_visited),
                 stations_visited |-> Cardinality(t.stations_visited),
                 planets_landed |-> t.planets_landed],
     combat |-> [kills |-> t.kills, deaths |-> t.deaths,
                 bounties_earned |-> t.bounties_earned,
                 combat_bonds |-> t.combat_bonds],
     exploration |-> [scans |-> t.scans, fss_scans |-> t.fss_scans,
                      dss_scans |-> t.dss_scans,
                      exploration_value |-> t.exploration_value],
     trading |-> [trade_profit |-> t.trade_profit],
     missions |-> [completed |-> t.missions_completed,
                   rewards |-> t.mission_rewards,
                   active |-> MissionRefs("active_missions",
                                          t.active_missions),
                   completed_list |-> MissionRefs("completed_missions",
                                                  t.completed_missions),
                   failed_list |-> MissionRefs("failed_missions",
                                               t.failed_missions)],
     reputation |-> t.reputation,
     startup_snapshot |-> t.startup_snapshot]

\* A screen calls get_statistics and keeps the result.
GetStatistics ==
    /\ lastCall' = [op |-> "get_statistics",
                    result |-> get_statistics(tracker)]
    /\ prevTracker' = tracker
    /\ UNCHANGED <<tracker, lastEvent, nEvents>>
    /\ UNCHANGED <<tailVars, scanVars, dataVars, appVars, monVars>>

MissionListKeys == {"active", "completed_list", "failed_list"}

\* What a caller can write to the structure it was given: a new entry in
\* one of the mission lists, the Name of a mission record in one of them, a
\* standing in the reputation map, an entry of a startup snapshot sub-map,
\* or a field of the credits block.
CallerWrites(stats) ==
    {[kind |-> "append", key |-> k] : k \in MissionListKeys}
    \cup
    UNION {{[kind |-> "mission_field", key |-> k, index |-> i] :
               i \in 1..Len(stats.missions[k])} : k \in MissionListKeys}
    \cup {[kind |-> "reputation"], [kind |-> "credits"]}
    \cup {[kind |-> "snapshot", key |-> k] :
             k \in DOMAIN stats.startup_snapshot}

\* The structure the caller holds after the write w.
Written(stats, w) ==
    CASE w.kind = "append" ->
           [stats EXCEPT !.missions[w.key] = Append(@, [local |-> TRUE])]
      [] w.kind = "reputation" ->
           [stats EXCEPT !.reputation = DictSet(@, "Z", 0)]
      [] w.kind = "credits" ->
           [stats EXCEPT !.credits.earned = 0 - 1]
      [] w.kind = "snapshot" ->
           [stats EXCEPT !.startup_snapshot[w.key] = DictSet(@, "Z", 0)]
      [] OTHER -> stats

\* The caller writes to the structure get_statistics returned.  A write to
\* a mission record goes through the reference to the tracker's record.
WriteToResult ==
    /\ lastCall.op = "get_statistics"
    /\ \E w \in CallerWrites(lastCall.result) :
          /\ lastCall' = [op |-> "write", write |-> w,
                          result |-> Written(lastCall.result, w)]
          /\ tracker' =
                IF w.kind = "mission_field"
                THEN LET ref == lastCall.result.missions[w.key][w.index]
                     IN  [tracker EXCEPT
                            ![ref.list][ref.index].Name = "changed"]
                ELSE tracker
    /\ prevTracker' = tracker
    /\ UNCHANGED <<lastEvent, nEvents>>
    /\ UNCHANGED <<tailVars, scanVars, dataVars, appVars, monVars>>

ApiNext == FeedApi \/ SetStartupSnapshot \/ GetStatistics \/ WriteToResult

(* C25: set_startup_snapshot changes only the startup snapshot: the session
   identity, every scalar counter, the visited sets, the mission lists and
   the reputation map are the same before and after the call. *)
C25_SnapshotFrame ==
    lastCall.op = "set_startup_snapshot" =>
        \A field \in DOMAIN tracker \ {"startup_snapshot"} :
            tracker[field] = prevTracker[field]

\* A snapshot was merged into a session that had a jump, a mission and a
\* standing, and it changed the startup snapshot.
C25_Witness ==
    /\ lastCall.op = "set_startup_snapshot"
    /\ tracker.startup_snapshot # prevTracker.startup_snapshot
    /\ Truthy(tracker.commander)
    /\ \/ tracker.jumps > 0 /\ tracker.active_missions # <<>>
       \/ tracker.jumps > 0 /\ DOMAIN tracker.reputation # {}

\* What the caller reads in a structure returned by get_statistics: the
\* mission references followed to the tracker's records.
Seen(stats, t) ==
    [stats EXCEPT !.missions =
        [k \in DOMAIN @ |->
            IF k \in MissionListKeys
            THEN [i \in 1..Len(@[k]) |->
                    IF "list" \in DOMAIN @[k][i]
                    THEN t[@[k][i].list][@[k][i].index] ELSE @[k][i]]
            ELSE @[k]]]

(* C26: no change a caller makes to the structure get_statistics returned,
   the mission records in its active, completed_list and failed_list lists
   and its startup snapshot sub-maps included, changes the Live Aggregator
   state or what a later get_statistics call returns. *)
C26_StatisticsIsolated ==
    lastCall.op = "write" =>
        /\ tracker = prevTracker
        /\ Seen(get_statistics(tracker), tracker)
              = Seen(get_statistics(prevTracker), prevTracker)

(***************************************************************************)
(*                        LISTING THE SESSIONS                             *)
(*                                                                         *)
(* Journals with and without a timestamp in their name, of two commanders  *)
(* or of none, are summarised one by one and the store is listed.          *)
(***************************************************************************)

\* The journal names of the listing: two carry a timestamp, two do not, so
\* that parse_timestamp_from_filename gives None for them.
ListingNames == {"Journal.20240101000000.01.log",
                 "Journal.20240102000000.01.log",
                 "Journal.log", "JournalBeta.01.log"}

\* What such a journal holds: the LoadGame of a commander, or no LoadGame.
ListingContents ==
    {<<ObjectLine("LoadGame", "t", [Commander |-> "A", Credits |-> 1000])>>,
     <<ObjectLine("LoadGame", "t", [Commander |-> "B", Credits |-> 700])>>,
     <<ObjectLine("Docked", "t", [StationName |-> "Hub"])>>}

\* The game leaves one more journal in log_dir.
WriteJournal ==
    /\ \E name \in ListingNames \ DOMAIN disk, lines \in ListingContents :
          disk' = DictSet(disk, name, [lines |-> lines, readable |-> TRUE])
    /\ dirty' = TRUE
    /\ UNCHANGED <<sessions, processed_files, db_sessions, db_processed,
                   lastScan, lastQuery, nOps>>
    /\ UNCHANGED <<tailVars, liveVars, dataVars, appVars, monVars>>

\* get_all_sessions() or get_sessions_for_commander(commander_name) is
\* called and its result kept.
ListSessions ==
    /\ \/ lastQuery' = [kind |-> "get_all_sessions",
                        result |-> get_all_sessions(sessions)]
       \/ \E commander_name \in QueryNames :
             lastQuery' = [kind |-> "get_sessions_for_commander",
                           commander_name |-> commander_name,
                           result |-> get_sessions_for_commander(
                                          sessions, commander_name)]
    /\ UNCHANGED <<disk, sessions, processed_files, db_sessions,
                   db_processed, lastScan, dirty, nOps>>
    /\ UNCHANGED <<tailVars, liveVars, dataVars, appVars, monVars>>

ListingNext == WriteJournal \/ process_new_log_file \/ ListSessions

\* The sessions a listing has to return.
Listed ==
    IF lastQuery.kind = "get_all_sessions" THEN DOMAIN sessions
    ELSE {n \in DOMAIN sessions :
             sessions[n].commander = lastQuery.commander_name}

(* C27: get_all_sessions returns every session and
   get_sessions_for_commander exactly the sessions whose commander equals
   the argument, ordered by start_time descending, every session without a
   start_time after all sessions that have one. *)
C27_ListingOrder ==
    lastQuery.kind \in {"get_all_sessions", "get_sessions_for_commander"} =>
        LET r == lastQuery.result
        IN  /\ Len(r) = Cardinality(Listed)
            /\ {r[i] : i \in 1..Len(r)} = {sessions[n] : n \in Listed}
            /\ \A i \in 1..Len(r) : \A j \in (i + 1)..Len(r) :
                  /\ r[i].start_time = None => r[j].start_time = None
                  /\ (r[i].start_time # None /\ r[j].start_time # None) =>
                        KeyRank(r[i].start_time) >= KeyRank(r[j].start_time)

\* A listing for commander A returned sessions with two different start
\* times and a session without one, while the store held another
\* commander's session too.
C27_Witness ==
    /\ lastQuery.kind = "get_sessions_for_commander"
    /\ lastQuery.commander_name = "A"
    /\ Len(lastQuery.result) >= 3
    /\ lastQuery.result[1].start_time = "2024-01-02T00:00:00"
    /\ lastQuery.result[2].start_time = "2024-01-01T00:00:00"
    /\ lastQuery.result[3].start_time = None
    /\ \E n \in DOMAIN sessions : sessions[n].commander = "B"

(***************************************************************************)
(*                    THE LEGACY JSON MIGRATION                            *)
(*                                                                         *)
(* SessionManager() migrates sessions.json and processed_files.json of the *)
(* application data directory into the SQLite tables and renames them.     *)
(***************************************************************************)

LegacyNames == {"sessions.json", "processed_files.json"}

\* Path.with_suffix(".json.migrated") of a legacy file.
Migrated(name) ==
    IF name = "sessions.json" THEN "sessions.json.migrated"
    ELSE "processed_files.json.migrated"

\* A session summary as a legacy sessions.json holds it.
LegacySession(name, commander) ==
    [Finish(NewSessionData(name)) EXCEPT !.commander = commander]

\* What a legacy file can hold: text that is no JSON, JSON that is no
\* object, or an object with the sessions (the processed paths).
LegacyContents(name) ==
    {[json |-> "invalid"], [json |-> "list"]}
    \cup
    IF name = "sessions.json"
    THEN {[json |-> "object", sessions |-> ss] :
            ss \in {<<>>,
                    SortedNames[1] :> LegacySession(SortedNames[1], "A"),
                    (SortedNames[1] :> LegacySession(SortedNames[1], "B"))
                    @@ (SortedNames[2] :> LegacySession(SortedNames[2],
                                                        None))}}
    ELSE {[json |-> "object", processed_files |-> ps] :
            ps \in {{}, {Path(SortedNames[1])},
                    {Path(SortedNames[1]), Path(SortedNames[2])}}}

NoMigration == [kind |-> "none"]

DataInit ==
    /\ legacy = <<>>
    /\ lastMigration = NoMigration

\* A legacy file is put into the application data directory (left by an
\* old version of the program or restored by the user).
PutLegacy ==
    /\ \E name \in LegacyNames :
          \E content \in LegacyContents(name) :
              legacy' = DictSet(legacy, name, content)
    /\ lastMigration' = NoMigration
    /\ UNCHANGED <<tailVars, liveVars, scanVars, appVars, monVars>>

\* Lines 66-72: INSERT OR REPLACE of every session of the legacy file.
MigratedRows(rows, ss) ==
    [sid \in (DOMAIN rows) \cup (DOMAIN ss) |->
        IF sid \in DOMAIN ss
        THEN [commander |-> IF Truthy(ss[sid].commander)
                            THEN ss[sid].commander ELSE "",
              start_time |-> IF Truthy(ss[sid].start_time)
                             THEN ss[sid].start_time ELSE "",
              data |-> JsonRoundTrip(ss[sid])]
        ELSE rows[sid]]

\* Path.rename: the file is found under the new name only, where it
\* replaces a file of that name.
Renamed(files, name) ==
    [f \in ((DOMAIN files) \ {name}) \cup {Migrated(name)} |->
        IF f = Migrated(name) THEN files[name] ELSE files[f]]

\* A plausible slip: the legacy file is removed instead of renamed.
MigrateFile_Unlinks(files, name, renames) ==
    IF name \in DOMAIN files /\ files[name].json = "object" /\ renames
    THEN [f \in (DOMAIN files) \ {name} |-> files[f]]
    ELSE files

\* The files after the migration of one legacy file: nothing happens to a
\* file that is absent or cannot be read as an object (the except clause is
\* entered before the rename), and the rename itself can fail (the target
\* exists on Windows, the directory is not writable).
MigrateFile(files, name, renames) ==
    IF name \in DOMAIN files /\ files[name].json = "object" /\ renames
    THEN Renamed(files, name)
    ELSE files

\* SessionManager._migrate_from_json_if_present(): the tables and the files
\* it leaves.  rename_s and rename_p say whether the renames succeed.
_migrate_from_json_if_present(rows, paths, files, rename_s, rename_p) ==
    LET has_s == "sessions.json" \in DOMAIN files
                 /\ files["sessions.json"].json = "object"
        has_p == "processed_files.json" \in DOMAIN files
                 /\ files["processed_files.json"].json = "object"
    IN  [db_sessions |->
            IF has_s
            THEN MigratedRows(rows, files["sessions.json"].sessions)
            ELSE rows,
         db_processed |->
            IF has_p
            THEN paths \cup files["processed_files.json"].processed_files
            ELSE paths,
         files |-> MigrateFile(MigrateFile(files, "sessions.json", rename_s),
                               "processed_files.json", rename_p)]

\* SessionManager(log_dir), lines 20-29: the tables exist, the legacy files
\* are migrated, the tables are loaded.
Startup ==
    /\ \E rename_s \in BOOLEAN, rename_p \in BOOLEAN :
          LET mg == _migrate_from_json_if_present(db_sessions, db_processed,
                                                  legacy, rename_s, rename_p)
          IN  /\ db_sessions' = mg.db_sessions
              /\ db_processed' = mg.db_processed
              /\ legacy' = mg.files
              /\ sessions' = load_sessions(mg.db_sessions)
              /\ processed_files' = load_processed_files(mg.db_processed)
    /\ lastMigration' = [kind |-> "migration",
                         repeat |-> lastMigration.kind = "migration",
                         before |-> [db_sessions |-> db_sessions,
                                     db_processed |-> db_processed,
                                     files |-> legacy]]
    /\ lastQuery' = NoQuery
    /\ UNCHANGED <<disk, lastScan, dirty, nOps>>
    /\ UNCHANGED <<tailVars, liveVars, appVars, monVars>>

MigrationNext == PutLegacy \/ Startup

(* C28: a second run of the legacy migration leaves the sessions table and
   the processed_files table as the first run left them, also when a
   legacy file was not renamed by the first run; and a migration never
   removes a legacy file: its content is found afterwards under its own
   name or under the name with the .migrated suffix. *)
C28_MigrationIdempotent ==
    lastMigration.kind = "migration" =>
        /\ \A rename_s \in BOOLEAN, rename_p \in BOOLEAN :
              LET again == _migrate_from_json_if_present(
                               db_sessions, db_processed, legacy,
                               rename_s, rename_p)
              IN  /\ again.db_sessions = db_sessions
                  /\ again.db_processed = db_processed
        /\ lastMigration.repeat =>
              /\ db_sessions = lastMigration.before.db_sessions
              /\ db_processed = lastMigration.before.db_processed
        /\ \A name \in LegacyNames \cap DOMAIN lastMigration.before.files :
              \/ /\ name \in DOMAIN legacy
                 /\ legacy[name] = lastMigration.before.files[name]
              \/ /\ Migrated(name) \in DOMAIN legacy
                 /\ legacy[Migrated(name)] = lastMigration.before.files[name]

\* The migration ran twice in a row on a sessions.json that holds sessions
\* and was not renamed by the first run; the second run renamed it.
C28_Witness ==
    /\ lastMigration.kind = "migration"
    /\ lastMigration.repeat
    /\ "sessions.json" \in DOMAIN lastMigration.before.files
    /\ lastMigration.before.files["sessions.json"].json = "object"
    /\ DOMAIN lastMigration.before.files["sessions.json"].sessions # {}
    /\ "sessions.json" \notin DOMAIN legacy
    /\ DOMAIN db_sessions # {}

(***************************************************************************)
(*                     THE STARTUP SNAPSHOT READER                         *)
(*                                                                         *)
(* src/journal_startup_reader.py reads the most recent journal of log_dir  *)
(* once and returns the five categories of the startup snapshot.           *)
(***************************************************************************)

MaxStartupLines == 4

\* An optional field of a line: <<v>> when present, <<>> for None.
Opt(raw, k) == IF k \in DOMAIN raw THEN Some(raw[k]) ELSE NoInt

\* Lines 19-25.
EmptyResult ==
    [load_game |-> <<>>, ranks |-> <<>>, progress |-> <<>>,
     powerplay |-> <<>>, reputation |-> <<>>]

\* {k: data.get(k) for k in (...) if data.get(k) is not None}
KnownFields(raw, keys) == [k \in keys \cap DOMAIN raw |-> raw[k]]

StandingKeys == {"Empire", "Federation", "Independent", "Alliance"}

\* Lines 45-83: one decoded line; st holds result and seen_load_game.
StartupLine(st, line) ==
    LET raw == line.raw
        e == line.event
    IN  CASE e = "LoadGame" ->
               [result |-> [st.result EXCEPT !.load_game =
                              [Commander |-> Get(raw, "Commander", None),
                               Ship |-> Get(raw, "Ship", None),
                               ShipID |-> Opt(raw, "ShipID"),
                               Credits |-> Opt(raw, "Credits"),
                               Loan |-> Opt(raw, "Loan"),
                               StarSystem |-> Get(raw, "StarSystem", None),
                               GameMode |-> Get(raw, "GameMode", None)]],
                seen_load_game |-> TRUE]
          [] e = "Rank" ->
               [st EXCEPT !.result.ranks = KnownFields(raw, RankKeys)]
          [] e = "Progress" ->
               [st EXCEPT !.result.progress = KnownFields(raw, RankKeys)]
          [] e = "Powerplay" ->
               [st EXCEPT !.result.powerplay =
                   [Power |-> Get(raw, "Power", None),
                    Rank |-> Opt(raw, "Rank"),
                    Merits |-> Opt(raw, "Merits"),
                    Votes |-> Opt(raw, "Votes"),
                    TimePledged |-> Opt(raw, "TimePledged")]]
          [] e = "Reputation" /\ st.seen_load_game ->
               [st EXCEPT !.result.reputation =
                   KnownFields(raw, StandingKeys)
                   @@ @]
          [] OTHER -> st

\* Lines 37-83: "for line in f"; a line that is no JSON is skipped.
RECURSIVE StartupLines(_, _)
StartupLines(st, lines) ==
    IF lines = <<>> THEN st
    ELSE StartupLines(IF Head(lines).json = "object"
                      THEN StartupLine(st, Head(lines)) ELSE st,
                      Tail(lines))

\* What get_startup_snapshot returns for the file f it found to be the
\* latest: the empty result when the file cannot be opened (lines 84-85);
\* [raises |-> TRUE] when a line is JSON but no object, since data.get
\* raises AttributeError and only OSError is caught.
SnapshotOfFile(f) ==
    IF ~f.readable THEN EmptyResult
    ELSE IF \E i \in 1..Len(f.lines) : f.lines[i].json = "number"
    THEN [raises |-> TRUE]
    ELSE StartupLines([result |-> EmptyResult, seen_load_game |-> FALSE],
                      f.lines).result

\* sorted(log_dir.glob("Journal*.log"), reverse=True)[0]
LatestJournal(d) ==
    LET fs == ListLogFiles(d) IN fs[Len(fs)]

\* get_startup_snapshot(log_dir)
get_startup_snapshot(d) ==
    IF DOMAIN d = {} THEN EmptyResult ELSE SnapshotOfFile(d[LatestJournal(d)])

\* The lines of the journals the reader is run on.
StartupJournalLines ==
    {ObjectLine("LoadGame", "t",
                [Commander |-> "A", Credits |-> 1000, Ship |-> "sidewinder"]),
     ObjectLine("LoadGame", "t", [Commander |-> "B", Credits |-> 700]),
     ObjectLine("Rank", "t", [Combat |-> 3, Trade |-> 2]),
     ObjectLine("Progress", "t", [Combat |-> 40]),
     ObjectLine("Powerplay", "t", [Power |-> "Aisling", Rank |-> 1]),
     ObjectLine("Reputation", "t", [Empire |-> 75]),
     ObjectLine("FSDJump", "t", [StarSystem |-> "Lave", JumpDist |-> 5])}

\* The game writes one line to a journal (creating the file with it).
WriteStartupLine ==
    /\ nOps < MaxStartupLines
    /\ nOps' = nOps + 1
    /\ \E name \in FileNames, line \in StartupJournalLines :
          disk' = IF name \in DOMAIN disk
                  THEN [disk EXCEPT ![name].lines = Append(@, line)]
                  ELSE DictSet(disk, name,
                               [lines |-> <<line>>, readable |-> TRUE])
    /\ dirty' = TRUE
    /\ lastQuery' = NoQuery
    /\ UNCHANGED <<sessions, processed_files, db_sessions, db_processed,
                   lastScan>>
    /\ UNCHANGED <<tailVars, liveVars, dataVars, appVars, monVars>>

\* select_commander or the end of a revalidation reads the snapshot.
ReadStartup ==
    /\ lastQuery' = [kind |-> "get_startup_snapshot",
                     result |-> get_startup_snapshot(disk)]
    /\ UNCHANGED <<disk, sessions, processed_files, db_sessions,
                   db_processed, lastScan, dirty, nOps>>
    /\ UNCHANGED <<tailVars, liveVars, dataVars, appVars, monVars>>

StartupNext == WriteStartupLine \/ ReadStartup

StartupEventTypes == {"Rank", "Progress", "Powerplay", "Reputation"}

\* The startup sequence of a file: its first LoadGame and the Rank,
\* Progress, Powerplay and Reputation lines that follow it directly.
RECURSIVE StartupRun(_)
StartupRun(lines) ==
    IF lines = <<>> \/ Head(lines).event \notin StartupEventTypes THEN <<>>
    ELSE <<Head(lines)>> \o StartupRun(Tail(lines))

StartupSequence(lines) ==
    IF \A i \in 1..Len(lines) : lines[i].event # "LoadGame" THEN <<>>
    ELSE LET first == CHOOSE i \in 1..Len(lines) :
                         /\ lines[i].event = "LoadGame"
                         /\ \A j \in 1..(i - 1) : lines[j].event # "LoadGame"
         IN  <<lines[first]>>
             \o StartupRun(SubSeq(lines, first + 1, Len(lines)))

(* C29: get_startup_snapshot returns what the startup sequence of the most
   recent journal alone gives: load_game from the first LoadGame of the
   file, and ranks, progress, powerplay and reputation from the Rank,
   Progress, Powerplay and Reputation lines between that LoadGame and the
   first following line of another type; the other lines of the file do
   not change the result. *)
C29_StartupSequenceOnly ==
    (lastQuery.kind = "get_startup_snapshot" /\ DOMAIN disk # {}) =>
        LET f == disk[LatestJournal(disk)]
        IN  lastQuery.result =
               SnapshotOfFile([f EXCEPT !.lines = StartupSequence(@)])

(***************************************************************************)
(*                THE CALLERS OF scan_all_logs AND THEIR THREADS           *)
(*                                                                         *)
(* src/main.py: the GUI thread runs one handler at a time, to its end; a   *)
(* RevalidateLogsThread runs scan_all_logs on a thread of its own.  A scan *)
(* advances one file of its list at a time, on the SessionManager that all *)
(* callers share.                                                          *)
(***************************************************************************)

MaxWorkers == 2

GuiThread == "gui"
Workers == {"worker" \o ToString(i) : i \in 1..MaxWorkers}

\* The commanders of the combo box.
ProfileNames == {"A", "B"}

\* The fields of a RevalidateLogsThread: pc is where the thread is
\* ("started" by start(), "scanning" inside run, "finished" once it has
\* emitted finished), _cancelled is its flag.  History: requested says that
\* request_cancel() was called after start() and before finished was
\* emitted, in_run that it was called while the thread was inside run,
\* began_after that the scan began a file after a call.
AppInit ==
    /\ current_commander = None
    /\ revalidate_thread = None
    /\ threads = <<>>
    /\ scans = <<>>
    /\ signals = <<>>
    /\ initial_done = FALSE

\* The journal the game writes when it starts.
GameJournal ==
    [lines |-> <<ObjectLine("LoadGame", "t1",
                            [Commander |-> "A", Credits |-> 1000,
                             Ship |-> "sidewinder"])>>,
     readable |-> TRUE]

\* The game starts and writes a new journal file.
GameStarts ==
    /\ \E name \in FileNames \ DOMAIN disk :
          disk' = DictSet(disk, name, GameJournal)
    /\ dirty' = TRUE
    /\ UNCHANGED <<sessions, processed_files, db_sessions, db_processed,
                   lastScan, lastQuery, nOps>>
    /\ UNCHANGED <<tailVars, liveVars, dataVars, appVars, monVars>>

\* The GUI thread is in its event loop, free to run a handler.
GuiIdle == GuiThread \notin DOMAIN scans

\* scan_all_logs, lines 181-187: the locals of a call that has listed the
\* directory.  No caller passes force_rescan=True.
EnterScan(caller, has_callback) ==
    [caller |-> caller, has_callback |-> has_callback,
     log_files |-> ListLogFiles(disk), i |-> 1,
     new_sessions |-> 0, processed_count |-> 0]

\* initial_session_scan, lines 1556-1566, up to the first file of the scan.
initial_session_scan ==
    /\ GuiIdle
    /\ ~initial_done
    /\ initial_done' = TRUE
    /\ scans' = DictSet(scans, GuiThread,
                        EnterScan("initial_session_scan", FALSE))
    /\ UNCHANGED <<current_commander, revalidate_thread, threads, signals>>
    /\ UNCHANGED <<tailVars, liveVars, scanVars, dataVars, monVars>>

\* check_new_sessions, lines 1568-1578, up to the first file of the scan.
check_new_sessions ==
    /\ GuiIdle
    /\ scans' = DictSet(scans, GuiThread,
                        EnterScan("check_new_sessions", FALSE))
    /\ UNCHANGED <<current_commander, revalidate_thread, threads, signals,
                   initial_done>>
    /\ UNCHANGED <<tailVars, liveVars, scanVars, dataVars, monVars>>

\* DashboardScreen.refresh_sessions, up to the first file of the scan.
refresh_sessions ==
    /\ GuiIdle
    /\ scans' = DictSet(scans, GuiThread,
                        EnterScan("refresh_sessions", FALSE))
    /\ UNCHANGED <<current_commander, revalidate_thread, threads, signals,
                   initial_done>>
    /\ UNCHANGED <<tailVars, liveVars, scanVars, dataVars, monVars>>

\* get_log_files_to_process(), lines 150-155.
get_log_files_to_process(d, pf) ==
    SelectSeq(ListLogFiles(d), LAMBDA n : Path(n) \notin pf)

\* The result of get_startup_snapshot as set_startup_snapshot takes it.
AsSnapshot(result) == [k \in DOMAIN result |-> [dict |-> result[k]]]

\* Lines 1356-1357 and 1396-1397.
ReadSnapshot(t) ==
    set_startup_snapshot(t, AsSnapshot(get_startup_snapshot(disk)))

\* select_commander(commander_name), lines 1340-1372.
select_commander ==
    /\ GuiIdle
    /\ \E commander_name \in ProfileNames :
          current_commander' = commander_name
    /\ IF get_log_files_to_process(disk, processed_files) = <<>>
       THEN /\ tracker' = ReadSnapshot(tracker)
            /\ UNCHANGED <<revalidate_thread, threads>>
       ELSE /\ \E w \in Workers \ DOMAIN threads :
                  /\ threads' = DictSet(threads, w,
                                        [pc |-> "started",
                                         _cancelled |-> FALSE,
                                         requested |-> FALSE,
                                         in_run |-> FALSE,
                                         began_after |-> FALSE])
                  /\ revalidate_thread' = w
            /\ UNCHANGED tracker
    /\ UNCHANGED <<scans, signals, initial_done>>
    /\ UNCHANGED <<prevTracker, lastEvent, nEvents, lastCall>>
    /\ UNCHANGED <<tailVars, scanVars, dataVars, monVars>>

\* RevalidateLogsThread.run, lines 766-771: the thread starts running and
\* enters scan_all_logs.
RevalidateRun ==
    /\ \E w \in DOMAIN threads :
          /\ threads[w].pc = "started"
          /\ threads' = [threads EXCEPT ![w].pc = "scanning",
                                         ![w]._cancelled = FALSE]
          /\ scans' = DictSet(scans, w, EnterScan("RevalidateLogsThread", TRUE))
    /\ UNCHANGED <<current_commander, revalidate_thread, signals, initial_done>>
    /\ UNCHANGED <<tailVars, liveVars, scanVars, dataVars, monVars>>

\* is_cancelled(): the lambda of line 774 for a revalidation thread, absent
\* for the other callers.
CancelRequested(th) == th \in DOMAIN threads /\ threads[th]._cancelled

\* scan_all_logs, lines 189-214: one pass of the loop by thread th, on the
\* sessions and processed_files the SessionManager holds at that moment.
ScanStep ==
    /\ \E th \in DOMAIN scans :
          LET sc == scans[th] IN
          /\ sc.i <= Len(sc.log_files)
          /\ IF CancelRequested(th)
             THEN /\ scans' = [scans EXCEPT ![th].i = Len(sc.log_files) + 1]
                  /\ UNCHANGED <<sessions, processed_files, threads>>
             ELSE LET name == sc.log_files[sc.i]
                      st == ScanFile([sessions |-> sessions,
                                      processed_files |-> processed_files,
                                      new_sessions |-> sc.new_sessions,
                                      processed_count |-> sc.processed_count,
                                      calls |-> <<>>, passes |-> <<>>,
                                      skipped |-> <<>>, marked |-> <<>>,
                                      cancelled |-> FALSE],
                                     name, disk[name], FALSE,
                                     sc.has_callback, Len(sc.log_files))
                  IN  /\ sessions' = st.sessions
                      /\ processed_files' = st.processed_files
                      /\ scans' = [scans EXCEPT
                                     ![th].i = @ + 1,
                                     ![th].new_sessions = st.new_sessions,
                                     ![th].processed_count =
                                        st.processed_count]
                      /\ threads' =
                            IF th \in DOMAIN threads /\ threads[th].requested
                            THEN [threads EXCEPT ![th].began_after = TRUE]
                            ELSE threads
    /\ UNCHANGED <<current_commander, revalidate_thread, signals,
                   initial_done>>
    /\ UNCHANGED <<disk, db_sessions, db_processed, lastScan, lastQuery,
                   dirty, nOps>>
    /\ UNCHANGED <<tailVars, liveVars, dataVars, monVars>>

\* scan_all_logs, lines 216-219, and the return to the caller: a
\* revalidation thread emits finished (line 776) and ends.
ScanReturn ==
    /\ \E th \in DOMAIN scans :
          LET sc == scans[th] IN
          /\ sc.i > Len(sc.log_files)
          /\ IF sc.new_sessions > 0
             THEN /\ db_sessions' = save_sessions(sessions, db_sessions)
                  /\ db_processed' = save_processed_files(processed_files)
             ELSE UNCHANGED <<db_sessions, db_processed>>
          /\ scans' = [t \in (DOMAIN scans) \ {th} |-> scans[t]]
          /\ IF th = GuiThread
             THEN UNCHANGED <<threads, signals>>
             ELSE /\ threads' = [threads EXCEPT ![th].pc = "finished"]
                  /\ signals' = Append(signals,
                                       [thread |-> th,
                                        success |-> ~threads[th]._cancelled,
                                        requested |-> threads[th].requested,
                                        in_run |-> threads[th].in_run,
                                        began_after |->
                                           threads[th].began_after])
    /\ UNCHANGED <<current_commander, revalidate_thread, initial_done>>
    /\ UNCHANGED <<disk, sessions, processed_files, lastScan, lastQuery,
                   dirty, nOps>>
    /\ UNCHANGED <<tailVars, liveVars, dataVars, monVars>>

\* _on_revalidate_timeout, lines 1380-1385; the timeout timer runs from
\* select_commander to _on_revalidate_finished.
_on_revalidate_timeout ==
    /\ GuiIdle
    /\ revalidate_thread # None
    /\ threads' = [threads EXCEPT
                      ![revalidate_thread]._cancelled = TRUE,
                      ![revalidate_thread].requested =
                         @ \/ threads[revalidate_thread].pc # "finished",
                      ![revalidate_thread].in_run =
                         @ \/ threads[revalidate_thread].pc = "scanning"]
    /\ UNCHANGED <<current_commander, revalidate_thread, scans, signals,
                   initial_done>>
    /\ UNCHANGED <<tailVars, liveVars, scanVars, dataVars, monVars>>

\* _on_revalidate_finished(success), lines 1387-1408, run by the GUI thread
\* for the oldest queued finished signal; the thread object that sent it is
\* gone afterwards.
_on_revalidate_finished ==
    /\ GuiIdle
    /\ signals # <<>>
    /\ signals' = Tail(signals)
    /\ revalidate_thread' = None
    /\ threads' = [w \in (DOMAIN threads) \ {Head(signals).thread} |->
                      threads[w]]
    /\ tracker' = IF Head(signals).success THEN ReadSnapshot(tracker)
                  ELSE tracker
    /\ UNCHANGED <<current_commander, scans, initial_done>>
    /\ UNCHANGED <<prevTracker, lastEvent, nEvents, lastCall>>
    /\ UNCHANGED <<tailVars, scanVars, dataVars, monVars>>

AppNext ==
    \/ GameStarts
    \/ initial_session_scan
    \/ check_new_sessions
    \/ refresh_sessions
    \/ select_commander
    \/ RevalidateRun
    \/ ScanStep
    \/ ScanReturn
    \/ _on_revalidate_timeout
    \/ _on_revalidate_finished

\* The threads that are inside scan_all_logs.
InFlight == DOMAIN scans

(* C30: at most one scan_all_logs execution is in flight at any time: the
   session-check timer, the initial scan, the dashboard refresh and the
   RevalidateLogsThread started by select_commander never have two scans
   running on the SessionManager at once. *)
C30_OneScanInFlight == Cardinality(InFlight) <= 1

(* C31: when request_cancel() is called on a RevalidateLogsThread after
   start() and before the thread emits finished, the thread begins no file
   after the call and emits finished(False); finished(True) is emitted only
   when no cancellation was requested. *)
C31_CancelReported ==
    \A k \in 1..Len(signals) :
        signals[k].requested =>
            ~signals[k].success /\ ~signals[k].began_after

(***************************************************************************)
(*                 TWO THREADS TAILING THE SAME JOURNAL                    *)
(*                                                                         *)
(* LogMonitor.start (src/log_monitor.py lines 108-114) starts the watchdog *)
(* observer before it calls scan_existing_logs: the observer thread runs   *)
(* on_modified and on_created, the monitor thread the initial scan, both   *)
(* through process_log_file and the one processed_positions map.  No lock  *)
(* is taken; a thread can be preempted between any two statements.         *)
(***************************************************************************)

MaxRecords == 2
MaxCalls == 3

ObserverThread == "observer"
MonitorThread == "monitor"
PollerThreads == {ObserverThread, MonitorThread}

MonInit ==
    /\ pollers = <<>>
    /\ watcher = [pc |-> "idle"]
    /\ event_tracker = [recent_events |-> <<>>, profiles |-> <<>>]

\* One journal record as the game writes it: a JSON object and a newline.
Record == <<"{", "}", NL>>

\* The game creates the journal or appends a record to it.
WriteRecord ==
    /\ Len(file) < MaxRecords * Len(Record)
    /\ fexists' = TRUE
    /\ file' = file \o Record
    /\ UNCHANGED <<processed_positions, delivered, npolls, lastPoll>>
    /\ UNCHANGED <<liveVars, scanVars, dataVars, appVars, monVars>>

\* process_log_file, lines 35-39, on thread th: the file exists and the
\* stored offset is read into current_pos.  The observer thread calls it
\* for every file system event, the monitor thread once, from
\* scan_existing_logs (lines 86-87).
BeginPoll ==
    /\ fexists
    /\ npolls < MaxCalls
    /\ npolls' = npolls + 1
    /\ \E th \in PollerThreads \ DOMAIN pollers :
          pollers' = DictSet(pollers, th,
                             [pc |-> "opened", k |-> npolls',
                              current_pos |-> processed_positions,
                              content |-> <<>>, new_lines |-> <<>>])
    /\ UNCHANGED <<fexists, file, processed_positions, delivered, lastPoll>>
    /\ UNCHANGED <<liveVars, scanVars, dataVars, appVars, watcher, event_tracker>>

\* The call of thread th is over: the observer thread returns to its event
\* queue, the monitor thread has finished scan_existing_logs.
EndPoll(th) ==
    IF th = MonitorThread
    THEN [pollers EXCEPT ![th] = [pc |-> "scanned"]]
    ELSE [t \in (DOMAIN pollers) \ {th} |-> pollers[t]]

\* Lines 42-44: open, seek(current_pos) and readlines() take the lines the
\* file has at that moment; an OSError ends the call (line 51).
ReadLines ==
    /\ \E th \in DOMAIN pollers :
          /\ pollers[th].pc = "opened"
          /\ \E io \in {"none", "read"} :
                pollers' =
                   IF io = "none"
                   THEN [pollers EXCEPT
                           ![th].pc = "read",
                           ![th].content = file,
                           ![th].new_lines =
                              readlines(file, pollers[th].current_pos)]
                   ELSE EndPoll(th)
    /\ UNCHANGED tailVars
    /\ UNCHANGED <<liveVars, scanVars, dataVars, appVars, watcher, event_tracker>>

\* Line 45: processed_positions[str(log_file)] = f.tell().
StorePosition ==
    /\ \E th \in DOMAIN pollers :
          /\ pollers[th].pc = "read"
          /\ processed_positions' =
                NewPosition(pollers[th].content, pollers[th].current_pos)
          /\ lastPoll' = [from |-> pollers[th].current_pos,
                          size |-> Len(pollers[th].content),
                          ndelivered |-> Len(delivered),
                          outcome |-> "ok"]
          /\ pollers' = [pollers EXCEPT ![th].pc = "deliver"]
    /\ UNCHANGED <<fexists, file, delivered, npolls>>
    /\ UNCHANGED <<liveVars, scanVars, dataVars, appVars, watcher, event_tracker>>

\* Lines 47-50: one pass of "for line in new_lines"; after the last line,
\* or when parse_log_line raises, the call returns.
DeliverLine ==
    /\ \E th \in DOMAIN pollers :
          LET p == pollers[th] IN
          /\ p.pc = "deliver"
          /\ IF p.new_lines = <<>>
                \/ Raises(p.content, <<Head(p.new_lines)>>)
             THEN /\ pollers' = EndPoll(th)
                  /\ UNCHANGED delivered
             ELSE /\ delivered' =
                        delivered
                        \o DeliverLines(p.content, <<Head(p.new_lines)>>, p.k)
                  /\ pollers' = [pollers EXCEPT ![th].new_lines = Tail(@)]
    /\ UNCHANGED <<fexists, file, processed_positions, npolls, lastPoll>>
    /\ UNCHANGED <<liveVars, scanVars, dataVars, appVars, watcher, event_tracker>>

PollersNext ==
    WriteRecord \/ BeginPoll \/ ReadLines \/ StorePosition \/ DeliverLine

(* C32: when the observer thread and the monitor thread poll the same file
   concurrently, every line of the file is delivered to on_event at most
   once and the lines are delivered in on-disk order: of any two deliveries
   the later one is of a line further on in the file. *)
C32_ConcurrentNoRedelivery ==
    \A a, b \in 1..Len(delivered) :
        a < b => delivered[a].start < delivered[b].start

(* C33: the byte offset stored in processed_positions for a file never
   decreases, under every interleaving of the polls of that file, and after
   each successful poll it is the length the file had when that poll read
   it. *)
C33_OffsetMonotone ==
    [][/\ processed_positions' >= processed_positions
       /\ processed_positions' # processed_positions =>
             processed_positions' = lastPoll'.size]_vars

(***************************************************************************)
(*            THE WATCHER THREAD AND THE SCREENS OF THE UI THREAD          *)
(*                                                                         *)
(* on_log_event (src/main.py lines 1411-1417) runs process_event on the    *)
(* thread that read the journal line; the screens call get_statistics and  *)
(* has_active_session on the UI thread.  The tracker has no lock.          *)
(***************************************************************************)

MaxWatcherEvents == 3

WatcherEvents(n) ==
    {[event |-> "LoadGame", timestamp |-> Timestamp(n),
      log_file |-> "Journal.1.log",
      raw |-> [Commander |-> "A", Credits |-> 1000, Ship |-> "sidewinder"]],
     [event |-> "LoadGame", timestamp |-> Timestamp(n),
      log_file |-> "Journal.2.log",
      raw |-> [Commander |-> "B", Credits |-> 700, Ship |-> "anaconda"]],
     [event |-> "FSDJump", timestamp |-> Timestamp(n),
      log_file |-> "Journal.1.log",
      raw |-> [StarSystem |-> "Lave", JumpDist |-> 5]]}

\* Line 101: the LoadGame starts a new session.
IsNewSession(t, ev) ==
    /\ ev.event = "LoadGame"
    /\ Truthy(Get(ev.raw, "Commander", None))
    /\ (~Truthy(t.commander) \/ ev.log_file # t.current_log_file)

\* The watcher thread enters process_event with the next event.  For a
\* LoadGame that starts a new session it runs to the end of reset()
\* (line 103); any other event is folded in one step.
WatcherBegins ==
    /\ watcher.pc = "idle"
    /\ nEvents < MaxWatcherEvents
    /\ nEvents' = nEvents + 1
    /\ \E ev \in WatcherEvents(nEvents + 1) :
          /\ lastEvent' = ev
          /\ IF IsNewSession(tracker, ev)
             THEN /\ tracker' = reset(tracker)
                  /\ watcher' = [pc |-> "reset", ev |-> ev, old |-> tracker]
             ELSE /\ tracker' = process_event(tracker, ev)
                  /\ UNCHANGED watcher
    /\ prevTracker' = tracker
    /\ lastCall' = NoCall
    /\ UNCHANGED <<pollers, event_tracker>>
    /\ UNCHANGED <<tailVars, scanVars, dataVars, appVars>>

\* Lines 104-112 and the rest of process_event, one statement at a time up
\* to start_credits; the remaining statements in one step.
WatcherStep ==
    /\ watcher.pc # "idle"
    /\ LET ev == watcher.ev IN
       CASE watcher.pc = "reset" ->
              /\ tracker' = [tracker EXCEPT
                               !.commander = Get(ev.raw, "Commander", None)]
              /\ watcher' = [watcher EXCEPT !.pc = "commander"]
         [] watcher.pc = "commander" ->
              /\ tracker' = [tracker EXCEPT !.current_log_file = ev.log_file]
              /\ watcher' = [watcher EXCEPT !.pc = "current_log_file"]
         [] watcher.pc = "current_log_file" ->
              /\ tracker' = [tracker EXCEPT !.start_time = ev.timestamp]
              /\ watcher' = [watcher EXCEPT !.pc = "start_time"]
         [] watcher.pc = "start_time" ->
              /\ tracker' = [tracker EXCEPT
                               !.start_credits =
                                  Some(Get(ev.raw, "Credits", 0))]
              /\ watcher' = [watcher EXCEPT !.pc = "start_credits"]
         [] OTHER ->
              /\ tracker' = process_event(watcher.old, ev)
              /\ watcher' = [pc |-> "idle"]
    /\ UNCHANGED <<prevTracker, lastEvent, nEvents, lastCall, pollers,
                   event_tracker>>
    /\ UNCHANGED <<tailVars, scanVars, dataVars, appVars>>

\* A screen calls has_active_session(), lines 391-393.
HasActiveSession ==
    /\ lastCall' = [op |-> "has_active_session",
                    result |-> tracker.commander # None]
    /\ UNCHANGED <<tracker, prevTracker, lastEvent, nEvents>>
    /\ UNCHANGED <<tailVars, scanVars, dataVars, appVars, monVars>>

WatcherNext ==
    WatcherBegins \/ WatcherStep \/ GetStatistics \/ HasActiveSession

(* C34: a get_statistics() or has_active_session() call made by the UI
   thread while the watcher thread is inside process_event for a LoadGame
   that starts a new session returns what it would return for the complete
   old session or for the complete new session, never something in
   between. *)
C34_NoPartialSession ==
    watcher.pc # "idle" =>
        LET old == watcher.old
            new == process_event(watcher.old, watcher.ev)
        IN  /\ lastCall.op = "get_statistics" =>
                  lastCall.result \in {get_statistics(old),
                                       get_statistics(new)}
            /\ lastCall.op = "has_active_session" =>
                  lastCall.result \in {old.commander # None,
                                       new.commander # None}

(***************************************************************************)
(*                 on_log_event AND THE EVENT TRACKER                      *)
(*                                                                         *)
(* src/main.py lines 1411-1417: the decoded record goes to                 *)
(* EventTracker.process_event when a commander is selected, and then, the  *)
(* same dict object, to CurrentSessionTracker.process_event.               *)
(***************************************************************************)

MaxDeliveries == 3

\* datetime.now().isoformat() at the n-th delivery: a text of the wall
\* clock, which no journal line carries.
Now(n) == "now" \o ToString(n)

DeliveryEvents(n) ==
    {[event |-> "LoadGame", timestamp |-> Timestamp(n),
      log_file |-> "Journal.1.log",
      raw |-> [Commander |-> "A", Credits |-> 1000, Ship |-> "sidewinder"]],
     [event |-> "LoadGame", timestamp |-> Timestamp(n),
      log_file |-> "Journal.2.log",
      raw |-> [Commander |-> "A", Credits |-> 1500]],
     [event |-> "FSDJump", timestamp |-> Timestamp(n),
      log_file |-> "Journal.1.log",
      raw |-> [StarSystem |-> "Lave", JumpDist |-> 5]]}

\* CommanderProfile(commander_name).data, src/profile_manager.py lines
\* 21-28, without the fields the event tracker does not touch.
NewProfile == [stats |-> <<>>, tracked_events |-> <<>>]

\* CommanderProfile.add_event(event_data), lines 52-59: the dict it was
\* given, after the call.
add_event(event_data, now) == [event_data EXCEPT !.timestamp = now]

\* EventTracker.update_stats_from_event, lines 41-63: the stats afterwards.
update_stats_from_event(stats, event_data) ==
    LET counts == Get(stats, "event_counts", <<>>)
        s1 == DictSet(DictSet(DictSet(stats,
                 "event_counts",
                 DictSet(counts, event_data.event,
                         Get(counts, event_data.event, 0) + 1)),
                 "last_event", event_data.timestamp),
                 "last_event_type", event_data.event)
    IN  IF event_data.event = "LoadGame"
        THEN DictSet(DictSet(s1, "last_ship",
                             Get(event_data.raw, "Ship", "Unknown")),
                     "last_system",
                     Get(event_data.raw, "StarSystem", "Unknown"))
        ELSE s1

\* EventTracker.process_event(event_data), lines 22-39, with commander the
\* tracker's current_commander: the event tracker afterwards.
EventTracker_process_event(et, commander, event_data, now) ==
    IF ~Truthy(commander) THEN et
    ELSE LET profile == Get(et.profiles, commander, NewProfile)
             stamped == add_event(event_data, now)
         IN  [recent_events |-> Append(et.recent_events, stamped),
              profiles |->
                 DictSet(et.profiles, commander,
                         [stats |-> update_stats_from_event(profile.stats,
                                                            stamped),
                          tracked_events |->
                             Append(profile.tracked_events, stamped)])]

\* The record on_log_event hands to CurrentSessionTracker.process_event.
HandedOn(commander, event_data, now) ==
    IF Truthy(commander) THEN add_event(event_data, now) ELSE event_data

\* on_log_event(event_data), lines 1411-1417, for a decoded journal line.
on_log_event ==
    /\ nEvents < MaxDeliveries
    /\ nEvents' = nEvents + 1
    /\ \E ev \in DeliveryEvents(nEvents + 1) :
          /\ event_tracker' =
                EventTracker_process_event(event_tracker, current_commander,
                                           ev, Now(nEvents + 1))
          /\ tracker' =
                process_event(tracker,
                              HandedOn(current_commander, ev,
                                       Now(nEvents + 1)))
          /\ lastEvent' = ev
    /\ prevTracker' = tracker
    /\ lastCall' = NoCall
    /\ UNCHANGED <<pollers, watcher>>
    /\ UNCHANGED <<tailVars, scanVars, dataVars, appVars>>

DeliveryNext == on_log_event \/ select_commander

(* C35: delivering a decoded event record through on_log_event does not
   modify it: when the delivered record is a LoadGame that starts a new
   session, the start_time the Live Aggregator stores is the timestamp
   string of the journal line, whether or not a commander is selected. *)
C35_TimestampOfTheLine ==
    (lastEvent.event = "LoadGame" /\ IsNewSession(prevTracker, lastEvent)) =>
        tracker.start_time = lastEvent.timestamp

(***************************************************************************)
(*              FURTHER PROPERTIES OF THE LIVE AGGREGATOR                  *)
(***************************************************************************)

(* C36: the counters and collections of the Live Aggregator change only
   through events of the tracked source file: an event that is no LoadGame
   and whose log_file differs from current_log_file leaves the live session
   state unchanged. *)
C36_OtherFileIgnored ==
    (/\ lastEvent.event \notin {"", "LoadGame"}
     /\ Truthy(prevTracker.commander)
     /\ lastEvent.log_file # prevTracker.current_log_file) =>
        tracker = prevTracker

(* C37: in every state of the Live Aggregator with an active session,
   money_earned - money_spent equals current_credits - start_credits, the
   credits.change that get_statistics reports. *)
C37_EarnedMinusSpentIsChange ==
    Truthy(tracker.commander) =>
        tracker.money_earned - tracker.money_spent
            = get_statistics(tracker).credits.change

(***************************************************************************)
(*                 THE INITIAL REPLAY OF THE EXISTING LOGS                 *)
(*                                                                         *)
(* LogMonitor.start calls scan_existing_logs (src/log_monitor.py lines     *)
(* 81-87), which polls every *.log file in the order log_dir.glob yields   *)
(* them: the order of the directory listing, which is not sorted.          *)
(***************************************************************************)

\* The orders a directory listing can return the files of S in.
Listings(S) ==
    {l \in [1..Cardinality(S) -> S] :
        \A a, b \in 1..Cardinality(S) : a # b => l[a] # l[b]}

\* The journal names of the model in the order of Python's string
\* comparison, and the place of a name in it.
NamesInOrder ==
    <<"Journal.20240101000000.01.log", "Journal.20240102000000.01.log",
      "Journal.log", "JournalBeta.01.log">>
NameRank(name) == CHOOSE i \in 1..Len(NamesInOrder) : NamesInOrder[i] = name

\* The replay has not begun: the game, run earlier, has left a journal.
JournalLeft ==
    /\ MonitorThread \notin DOMAIN pollers
    /\ WriteJournal

\* LogMonitor.start, lines 99-114, up to the directory listing of line 86.
StartMonitor ==
    /\ MonitorThread \notin DOMAIN pollers
    /\ \E listing \in Listings(DOMAIN disk) :
          pollers' = DictSet(pollers, MonitorThread,
                             [pc |-> "replay", listing |-> listing, i |-> 1])
    /\ UNCHANGED <<watcher, event_tracker>>
    /\ UNCHANGED <<tailVars, liveVars, scanVars, dataVars, appVars>>

\* process_log_file on a file read from offset 0, lines 47-50, with
\* on_event = on_log_event: st holds the Live Aggregator, the event tracker
\* and the number of events delivered so far.
RECURSIVE DeliverAll(_, _, _)
DeliverAll(st, name, lines) ==
    IF lines = <<>> THEN st
    ELSE LET ev == EventOf(name, Head(lines))
             now == Now(st.n + 1)
         IN  DeliverAll([tracker |->
                            process_event(st.tracker,
                                          HandedOn(current_commander, ev,
                                                   now)),
                         event_tracker |->
                            EventTracker_process_event(st.event_tracker,
                                                       current_commander,
                                                       ev, now),
                         n |-> st.n + 1,
                         last |-> ev],
                        name, Tail(lines))

\* Lines 86-87: one pass of the loop of scan_existing_logs; after the last
\* file the replay is over.
ReplayFile ==
    /\ MonitorThread \in DOMAIN pollers
    /\ pollers[MonitorThread].pc = "replay"
    /\ LET p == pollers[MonitorThread] IN
       IF p.i > Len(p.listing)
       THEN /\ pollers' = [pollers EXCEPT ![MonitorThread].pc = "scanned"]
            /\ UNCHANGED <<liveVars, event_tracker>>
       ELSE LET name == p.listing[p.i]
                st == DeliverAll([tracker |-> tracker,
                                  event_tracker |-> event_tracker,
                                  n |-> nEvents, last |-> lastEvent],
                                 name, disk[name].lines)
            IN  /\ tracker' = st.tracker
                /\ event_tracker' = st.event_tracker
                /\ nEvents' = st.n
                /\ lastEvent' = st.last
                /\ prevTracker' = tracker
                /\ lastCall' = NoCall
                /\ pollers' = [pollers EXCEPT ![MonitorThread].i = @ + 1]
    /\ UNCHANGED watcher
    /\ UNCHANGED <<tailVars, scanVars, dataVars, appVars>>

ReplayNext == JournalLeft \/ StartMonitor \/ ReplayFile

\* The journals that hold a LoadGame with a commander.
WithCommander ==
    {name \in DOMAIN disk :
        \E k \in 1..Len(disk[name].lines) :
            /\ disk[name].lines[k].event = "LoadGame"
            /\ Truthy(Get(disk[name].lines[k].raw, "Commander", None))}

ReplayOver ==
    /\ MonitorThread \in DOMAIN pollers
    /\ pollers[MonitorThread].pc = "scanned"

(* C38: once the initial replay of the existing logs by LogMonitor.start()
   has finished, the session the Live Aggregator tracks is the one of the
   most recent journal (the greatest file name) that holds a LoadGame with
   a commander, whatever order the directory listing returned the files
   in. *)
C38_TracksLatestJournal ==
    (ReplayOver /\ WithCommander # {}) =>
        \E name \in WithCommander :
            /\ \A other \in WithCommander : NameRank(other) <= NameRank(name)
            /\ tracker.current_log_file = Path(name)

MaxTypedEvents == 4

\* Mission events as a journal of any origin can hold them: the fields of
\* the game's journal, and a MissionCompleted whose FactionEffects is the
\* number 5.
TypedEvents(n) ==
    {[event |-> "LoadGame", timestamp |-> Timestamp(n), log_file |-> f,
      raw |-> [Commander |-> "A", Credits |-> 1000]] : f \in LogFiles}
    \cup
    {[event |-> e, timestamp |-> Timestamp(n), log_file |-> "Journal.1.log",
      raw |-> MissionRaw(Some(7))] :
        e \in {"MissionAccepted", "MissionCompleted", "MissionFailed"}}
    \cup
    {[event |-> "MissionCompleted", timestamp |-> Timestamp(n),
      log_file |-> "Journal.1.log",
      raw |-> [MissionID |-> Some(7), Name |-> "Courier", Faction |-> "X",
               Reward |-> 50, FactionEffects |-> [num |-> 5]]]}

\* on_event delivers one of these events to process_event.
FeedTyped ==
    /\ nEvents < MaxTypedEvents
    /\ \E ev \in TypedEvents(nEvents + 1) :
          /\ tracker' = process_event(tracker, ev)
          /\ lastEvent' = ev
    /\ prevTracker' = tracker
    /\ nEvents' = nEvents + 1
    /\ lastCall' = NoCall
    /\ UNCHANGED <<tailVars, scanVars, dataVars, appVars, monVars>>

TypedNext == FeedTyped

\* lst begins with the entries of old.
Extends(lst, old) ==
    Len(lst) >= Len(old) /\ SubSeq(lst, 1, Len(old)) = old

(* C39: in every state of the Live Aggregator missions_completed equals
   the length of completed_missions, and an event that does not start a
   new session shrinks neither missions_completed nor completed_missions
   nor failed_missions. *)
C39_MissionCountMatchesList ==
    /\ tracker.missions_completed = Len(tracker.completed_missions)
    /\ ~IsNewSession(prevTracker, lastEvent) =>
          /\ tracker.missions_completed >= prevTracker.missions_completed
          /\ Extends(tracker.completed_missions,
                     prevTracker.completed_missions)
          /\ Extends(tracker.failed_missions, prevTracker.failed_missions)

(***************************************************************************)
(*                           SPECIFICATIONS                                *)
(***************************************************************************)

Init ==
    TailInit /\ LiveInit /\ ScanInit /\ DataInit /\ AppInit /\ MonInit

SpecTail == Init /\ [][TailNext]_vars

SpecLive == Init /\ [][LiveNext]_vars

SpecMissions == Init /\ [][MissionNext]_vars

SpecScan == Init /\ [][ScanNext]_vars

SpecJournal == Init /\ [][JournalNext]_vars
SpecSample == Init /\ [][SampleNext]_vars
SpecStanding == Init /\ [][StandingNext]_vars
SpecApi == Init /\ [][ApiNext]_vars
SpecListing == Init /\ [][ListingNext]_vars
SpecMigration == Init /\ [][MigrationNext]_vars
SpecStartup == Init /\ [][StartupNext]_vars
SpecThreads == Init /\ [][AppNext]_vars
SpecPollers == Init /\ [][PollersNext]_vars
SpecWatcher == Init /\ [][WatcherNext]_vars
SpecDelivery == Init /\ [][DeliveryNext]_vars
SpecReplay == Init /\ [][ReplayNext]_vars
SpecTyped == Init /\ [][TypedNext]_vars

=============================================================================
